---------------------------- MODULE Spec2Model ----------------------------
(***************************************************************************)
(* instant-mcp: the command registry (catalog), the batch coordinator and   *)
(* the Go value/reference behaviour of registry snapshots.                  *)
(*                                                                          *)
(* Strings whose characters the code inspects (command names, timeouts,     *)
(* executable paths) are sequences of one-character strings.  Go maps are   *)
(* TLA+ functions; a nil error is the record Nil.                           *)
(***************************************************************************)
EXTENDS Integers, Sequences, FiniteSets, TLC

VARIABLES
    registry,   \* Registry.commands of the live registry: name -> Command
    last,       \* the call just completed with what it returned, or Idle
    heap,       \* SpecAlias: the Go heap's Args maps, address -> map
    snap,       \* SpecAlias: the map a caller holds (from Snapshot, or for Load)
    saved,      \* SpecBatch: the commands last written by SaveState
    mu,         \* SpecConc: Registry.mu, the holders of the sync.RWMutex
    goroutines, \* SpecConc: the goroutines calling the registry concurrently
    phase,      \* SpecServer: "boot" until main has called LoadState, then "run"
    loop        \* SpecRun: where Server.Run is, what it read and what it wrote

vars == <<registry, last, heap, snap, saved, mu, goroutines, phase, loop>>

\* What the calls on the registry alone leave untouched.
callerVars == <<heap, snap, saved>>

\* What a single-threaded caller leaves untouched: it never waits for the
\* lock, and takes and releases it within each call.
concVars == <<mu, goroutines>>

(***************************************************************************)
(* Characters and errors                                                    *)
(***************************************************************************)
Letters ==
    {"a","b","c","d","e","f","g","h","i","j","k","l","m",
     "n","o","p","q","r","s","t","u","v","w","x","y","z",
     "A","B","C","D","E","F","G","H","I","J","K","L","M",
     "N","O","P","Q","R","S","T","U","V","W","X","Y","Z"}

Digits == {"0","1","2","3","4","5","6","7","8","9"}

\* Go's nil error.
Nil == [kind |-> "nil", about |-> <<>>]

\* fmt.Errorf(...): the message's class and the name it quotes.
Err(kind, about) == [kind |-> kind, about |-> about]

\* make(map[string]models.Command): the empty map.
EmptyMap == <<>>

(***************************************************************************)
(* validateCommand                                                          *)
(***************************************************************************)
\* regexp `^[a-zA-Z][a-zA-Z0-9_]*$`, run over s from position i on
\* (position 1 must be a letter, every later one a letter, digit or "_").
RECURSIVE validNameFrom(_, _)
validNameFrom(s, i) ==
    IF i > Len(s) THEN i > 1
    ELSE IF i = 1 THEN s[1] \in Letters /\ validNameFrom(s, 2)
    ELSE s[i] \in (Letters \cup Digits \cup {"_"}) /\ validNameFrom(s, i + 1)

validName(s) == validNameFrom(s, 1)

\* regexp `^\d+[smh]$`: one or more digits, then exactly one unit character.
RECURSIVE digitsUpTo(_, _)
digitsUpTo(s, n) ==
    IF n = 0 THEN TRUE ELSE s[n] \in Digits /\ digitsUpTo(s, n - 1)

\* validateTimeout with the pattern left unanchored (`\d+[smh]`): a digit
\* followed by a unit anywhere in the string is enough.
validateTimeoutUnanchored(timeout) ==
    IF \E i \in 1..(Len(timeout) - 1) :
           timeout[i] \in Digits /\ timeout[i + 1] \in {"s", "m", "h"}
    THEN [kind |-> "nil", about |-> <<>>]
    ELSE [kind |-> "timeout_invalid", about |-> timeout]

validateTimeout(timeout) ==
    IF /\ Len(timeout) >= 2
       /\ timeout[Len(timeout)] \in {"s", "m", "h"}
       /\ digitsUpTo(timeout, Len(timeout) - 1)
    THEN Nil
    ELSE Err("timeout_invalid", timeout)

validTypes == {"string", "number", "boolean"}

\* The error the loop over cmd.Args returns for argument argName, if any.
argError(argName, arg) ==
    IF arg.Type = "" THEN Err("arg_type_missing", argName)
    ELSE IF arg.Type \notin validTypes THEN Err("arg_type_invalid", argName)
    ELSE Nil

\* The errors validateCommand can return (Nil alone: the command is valid).
\* The loop over cmd.Args runs in Go's unspecified map order and returns at
\* the first offending argument, so any offending argument can be the one
\* reported.
validateCommand(cmd) ==
    IF cmd.Name = <<>> THEN {Err("name_required", <<>>)}
    ELSE IF ~validName(cmd.Name) THEN {Err("name_invalid", cmd.Name)}
    ELSE IF cmd.Exec = <<>> THEN {Err("exec_required", cmd.Name)}
    ELSE LET argErrs == {argError(a, cmd.Args[a]) : a \in DOMAIN cmd.Args} \ {Nil}
         IN  IF argErrs # {} THEN argErrs
             ELSE IF cmd.Timeout # <<>> /\ validateTimeout(cmd.Timeout) # Nil
                  THEN {validateTimeout(cmd.Timeout)}
                  ELSE {Nil}

(***************************************************************************)
(* Registry                                                                 *)
(***************************************************************************)
\* delete(m, k)
MapDelete(m, k) == [x \in (DOMAIN m) \ {k} |-> m[x]]

\* m[k] = v
MapSet(m, k, v) == [x \in (DOMAIN m) \cup {k} |-> IF x = k THEN v ELSE m[x]]

\* maps.Copy(dst, src): every key of src is set in dst, one key at a time.
RECURSIVE mapsCopyKeys(_, _, _)
mapsCopyKeys(dst, src, keys) ==
    IF keys = {} THEN dst
    ELSE LET k == CHOOSE x \in keys : TRUE
         IN  mapsCopyKeys(MapSet(dst, k, src[k]), src, keys \ {k})

\* maps.Copy that stops one key short.
mapsCopyShort(dst, src) ==
    IF DOMAIN src = {} THEN dst
    ELSE mapsCopyKeys(dst, src, (DOMAIN src) \ {CHOOSE x \in DOMAIN src : TRUE})

mapsCopy(dst, src) == mapsCopyKeys(dst, src, DOMAIN src)

\* What a registry call returns: the commands map afterwards, the error and
\* (for Get) the command.
Outcome(commands, err) == [commands |-> commands, err |-> err]

\* Registry.Add without the existence check: a present name is overwritten.
RegistryAddOverwrite(commands, cmd) ==
    { IF e # Nil THEN Outcome(commands, e)
      ELSE Outcome(MapSet(commands, cmd.Name, cmd), Nil)
      : e \in validateCommand(cmd) }

\* Registry.Add: the outcomes of Add(cmd) on a registry holding commands.
RegistryAdd(commands, cmd) ==
    { IF e # Nil THEN Outcome(commands, e)
      ELSE IF cmd.Name \in DOMAIN commands
           THEN Outcome(commands, Err("already_exists", cmd.Name))
           ELSE Outcome(MapSet(commands, cmd.Name, cmd), Nil)
      : e \in validateCommand(cmd) }

\* Registry.Remove that re-makes the whole map instead of deleting one key.
RegistryRemoveAll(commands, name) ==
    IF name \notin DOMAIN commands
    THEN Outcome(commands, Err("not_found", name))
    ELSE Outcome(EmptyMap, Nil)

\* Registry.Remove
RegistryRemove(commands, name) ==
    IF name \notin DOMAIN commands
    THEN Outcome(commands, Err("not_found", name))
    ELSE Outcome(MapDelete(commands, name), Nil)

\* models.Command{}: the zero value Get returns beside an error.
ZeroCommand ==
    [Name |-> <<>>, Exec |-> <<>>, Args |-> EmptyMap, Description |-> "",
     Async |-> FALSE, Timeout |-> <<>>]

\* Registry.Get: the command and the error.
RegistryGet(commands, name) ==
    IF name \notin DOMAIN commands
    THEN [cmd |-> ZeroCommand, err |-> Err("not_found", name)]
    ELSE [cmd |-> commands[name], err |-> Nil]

\* Registry.List, as the set of the commands returned (the order is Go's
\* unspecified map order).
RegistryList(commands) == {commands[n] : n \in DOMAIN commands}

\* Registry.Len
RegistryLen(commands) == Cardinality(DOMAIN commands)

\* Registry.Update that checks the name first and validates only after the
\* old entry is gone.
RegistryUpdateLateValidate(commands, name, cmd) ==
    { IF name \notin DOMAIN commands
      THEN Outcome(commands, Err("not_found", name))
      ELSE IF e # Nil THEN Outcome(MapDelete(commands, name), e)
      ELSE Outcome(MapSet(MapDelete(commands, name), cmd.Name, cmd), Nil)
      : e \in validateCommand(cmd) }

\* Registry.Update without the delete of the old entry on a rename.
RegistryUpdateKeepOld(commands, name, cmd) ==
    { IF e # Nil THEN Outcome(commands, e)
      ELSE IF name \notin DOMAIN commands
           THEN Outcome(commands, Err("not_found", name))
           ELSE Outcome(MapSet(commands, cmd.Name, cmd), Nil)
      : e \in validateCommand(cmd) }

\* Registry.Update: the outcomes of Update(name, cmd).
RegistryUpdate(commands, name, cmd) ==
    { IF e # Nil THEN Outcome(commands, e)
      ELSE IF name \notin DOMAIN commands
           THEN Outcome(commands, Err("not_found", name))
           ELSE Outcome(MapSet(IF name # cmd.Name THEN MapDelete(commands, name)
                                                  ELSE commands,
                               cmd.Name, cmd), Nil)
      : e \in validateCommand(cmd) }

\* Registry.Snapshot: a new map filled by maps.Copy.
RegistrySnapshot(commands) == mapsCopy(EmptyMap, commands)

\* Registry.Load that copies into the existing map instead of a new one.
RegistryLoadMerge(old, commands) == mapsCopy(old, commands)

\* Registry.Load: r.commands becomes a new map filled by maps.Copy; the
\* previous map (old) is dropped.
RegistryLoad(old, commands) == mapsCopy(EmptyMap, commands)

(***************************************************************************)
(* Callers of the registry: the commands and names they pass                *)
(***************************************************************************)
ExecEcho == <<"/", "e", "c", "h", "o">>

ExecOther == <<"l", "s">>

\* testCommand(name) of the registry tests.
testCommand(name) ==
    [Name |-> name, Exec |-> ExecEcho,
     Args |-> [a \in {"msg"} |-> [Type |-> "string", Description |-> "Message",
                                  Required |-> TRUE]],
     Description |-> "Test command", Async |-> FALSE,
     Timeout |-> <<"3", "0", "s">>]

\* A second valid definition: no arguments, no timeout, another executable.
leanCommand(name) ==
    [Name |-> name, Exec |-> ExecOther, Args |-> EmptyMap,
     Description |-> "", Async |-> TRUE, Timeout |-> <<>>]

ValidNames == {<<"a">>, <<"b", "_", "1">>, <<"C">>}

\* "", "123start", "has-dash", "has space" of TestRegistryAddInvalidName,
\* shortened, and a leading underscore.
InvalidNames == {<<>>, <<"1", "a">>, <<"a", "-", "b">>, <<"a", " ">>, <<"_", "a">>}

InputNames == ValidNames \cup InvalidNames

arg(type, required) == [Type |-> type, Description |-> "", Required |-> required]

\* Argument maps with an argument the validator rejects.
BadArgs ==
    { [a \in {"x"} |-> arg("invalid", FALSE)],
      [a \in {"x"} |-> arg("", TRUE)],
      [a \in {"x", "y"} |-> IF a = "x" THEN arg("number", TRUE) ELSE arg("String", FALSE)],
      [a \in {"x", "y"} |-> IF a = "x" THEN arg("", FALSE) ELSE arg("int", FALSE)] }

\* Further argument maps the validator accepts.
GoodArgs ==
    { [a \in {"x", "y"} |-> IF a = "x" THEN arg("number", TRUE) ELSE arg("boolean", FALSE)] }

\* "forever" of TestRegistryAddInvalidTimeout, shortened, and near misses of
\* the format.
BadTimeouts ==
    { <<"f", "o", "r">>, <<"s">>, <<"3", "0">>, <<"5", "x">>, <<"-", "5", "s">>,
      <<"5", "s", "s">>, <<"1", ".", "5", "h">>, <<"5", " ", "m">>, <<"5", "S">> }

GoodTimeouts == { <<"5", "m">>, <<"1", "h">>, <<"0", "0", "7", "s">> }

\* The definitions callers pass to Add and Update.
InputCommands ==
    {testCommand(n) : n \in InputNames}
    \cup {leanCommand(n) : n \in ValidNames}
    \cup {[testCommand(<<"a">>) EXCEPT !.Exec = <<>>],
          [ZeroCommand EXCEPT !.Name = <<"C">>],
          [testCommand(<<"1", "a">>) EXCEPT !.Exec = <<>>]}
    \cup {[testCommand(<<"a">>) EXCEPT !.Args = m] : m \in BadArgs \cup GoodArgs}
    \cup {[testCommand(<<"b", "_", "1">>) EXCEPT !.Timeout = t] : t \in BadTimeouts}
    \cup {[leanCommand(<<"C">>) EXCEPT !.Timeout = t] : t \in GoodTimeouts}

(***************************************************************************)
(* The registry driven through its public methods                           *)
(***************************************************************************)
Call(op, name, cmd, pre, err, ret) ==
    [op |-> op, name |-> name, cmd |-> cmd, pre |-> pre, err |-> err, ret |-> ret]

\* Between two calls the caller holds nothing of the previous one.
Idle == Call("idle", <<>>, ZeroCommand, EmptyMap, Nil, <<>>)

\* The zero sync.RWMutex: no writer (0) and no readers hold it.
Unlocked == [writer |-> 0, readers |-> {}]

\* msg.ID of a message without "id" (or with "id": null): nil.
NoID == [present |-> FALSE, value |-> 0]

\* The JSONRPCMessage that ReadMessage decodes from a line.  params holds
\* whether the method's handler can decode them and, for tools/call, what
\* they decode to.
JSONRPCMessage(id, method, params) == [id |-> id, method |-> method, params |-> params]

\* No message is being handled.
NoMessage == JSONRPCMessage(NoID, "", [ok |-> TRUE, name |-> <<>>, arguments |-> <<>>])

\* Server.Run before its first ReadMessage: nothing read (read counts the
\* messages decoded), nothing to write (wr), nothing written (out holds, for
\* each message written, the number of the request it answers and its id),
\* no error returned.  live, gone and goneNew remember the names add_command
\* has registered and remove_command (or a rolled-back batch) has taken away;
\* saveFailed remembers that some persist() has logged a failure.
LoopStart ==
    [pc |-> "Idle", read |-> 0, msg |-> NoMessage, wr |-> <<>>, steps |-> <<>>,
     out |-> <<>>, err |-> "", live |-> {}, gone |-> {}, goneNew |-> {},
     saveFailed |-> FALSE]

\* NewRegistry()
Init ==
    /\ registry = EmptyMap
    /\ last = Idle
    /\ heap = EmptyMap
    /\ snap = EmptyMap
    /\ saved = EmptyMap
    /\ mu = Unlocked
    /\ goroutines = <<>>
    /\ phase = "boot"
    /\ loop = LoopStart

Add ==
    /\ last = Idle
    /\ \E cmd \in InputCommands : \E o \in RegistryAdd(registry, cmd) :
        /\ registry' = o.commands
        /\ last' = Call("Add", cmd.Name, cmd, registry, o.err, <<>>)
    /\ UNCHANGED callerVars
    /\ UNCHANGED concVars
    /\ UNCHANGED <<phase, loop>>

Remove ==
    /\ last = Idle
    /\ \E name \in InputNames :
        LET o == RegistryRemove(registry, name)
        IN  /\ registry' = o.commands
            /\ last' = Call("Remove", name, ZeroCommand, registry, o.err, <<>>)
    /\ UNCHANGED callerVars
    /\ UNCHANGED concVars
    /\ UNCHANGED <<phase, loop>>

Get ==
    /\ last = Idle
    /\ \E name \in InputNames :
        LET g == RegistryGet(registry, name)
        IN  /\ last' = Call("Get", name, ZeroCommand, registry, g.err, g.cmd)
            /\ UNCHANGED <<registry, callerVars>>
            /\ UNCHANGED concVars
            /\ UNCHANGED <<phase, loop>>

List ==
    /\ last = Idle
    /\ last' = Call("List", <<>>, ZeroCommand, registry, Nil, RegistryList(registry))
    /\ UNCHANGED <<registry, callerVars>>
    /\ UNCHANGED concVars
    /\ UNCHANGED <<phase, loop>>

LenCall ==
    /\ last = Idle
    /\ last' = Call("Len", <<>>, ZeroCommand, registry, Nil, RegistryLen(registry))
    /\ UNCHANGED <<registry, callerVars>>
    /\ UNCHANGED concVars
    /\ UNCHANGED <<phase, loop>>

Update ==
    /\ last = Idle
    /\ \E name \in InputNames : \E cmd \in InputCommands :
        \E o \in RegistryUpdate(registry, name, cmd) :
            /\ registry' = o.commands
            /\ last' = Call("Update", name, cmd, registry, o.err, <<>>)
    /\ UNCHANGED callerVars
    /\ UNCHANGED concVars
    /\ UNCHANGED <<phase, loop>>

\* snap := r.Snapshot(); r2 := NewRegistry(); r2.Load(snap): returns r2's
\* commands.
SnapshotLoadFresh ==
    /\ last = Idle
    /\ LET s == RegistrySnapshot(registry)
       IN  last' = Call("SnapshotLoadFresh", <<>>, ZeroCommand, registry, Nil,
                        RegistryLoad(EmptyMap, s))
    /\ UNCHANGED <<registry, callerVars>>
    /\ UNCHANGED concVars
    /\ UNCHANGED <<phase, loop>>

\* r.Load(r.Snapshot())
SnapshotLoadSelf ==
    /\ last = Idle
    /\ LET s == RegistrySnapshot(registry)
       IN  /\ registry' = RegistryLoad(registry, s)
           /\ last' = Call("SnapshotLoadSelf", <<>>, ZeroCommand, registry, Nil, s)
    /\ UNCHANGED callerVars
    /\ UNCHANGED concVars
    /\ UNCHANGED <<phase, loop>>

\* The caller drops what the call returned and goes on to its next call.
Return ==
    /\ last # Idle
    /\ last' = Idle
    /\ UNCHANGED <<registry, callerVars>>
    /\ UNCHANGED concVars
    /\ UNCHANGED <<phase, loop>>

NextRegistry ==
    \/ Add
    \/ Remove
    \/ Get
    \/ List
    \/ LenCall
    \/ Update
    \/ SnapshotLoadFresh
    \/ SnapshotLoadSelf
    \/ Return

SpecRegistry == Init /\ [][NextRegistry]_vars

(***************************************************************************)
(* JSON values of tool-call arguments (map[string]any)                      *)
(***************************************************************************)
\* A JSON value: its type t and, in the field of that type, its value.  Strings
\* whose characters the code inspects (names, executables, timeouts) are
\* character sequences (s); strings it only compares or stores are TLA+
\* strings (x).
JValue(t, s, x, b, n, o, a) ==
    [t |-> t, s |-> s, x |-> x, b |-> b, n |-> n, o |-> o, a |-> a]

JString(v) == JValue("string", v, "", FALSE, 0, <<>>, <<>>)

JText(v) == JValue("string", <<>>, v, FALSE, 0, <<>>, <<>>)

JBool(v) == JValue("bool", <<>>, "", v, 0, <<>>, <<>>)

JNumber(v) == JValue("number", <<>>, "", FALSE, v, <<>>, <<>>)

JObject(v) == JValue("object", <<>>, "", FALSE, 0, v, <<>>)

JArray(v) == JValue("array", <<>>, "", FALSE, 0, <<>>, v)

\* _, ok := m[k].(T)
isA(m, k, type) == k \in DOMAIN m /\ m[k].t = type

\* v, _ := m[k].(string) for a string whose characters the code inspects
\* (the zero value is the empty string).
asString(m, k) == IF isA(m, k, "string") THEN m[k].s ELSE <<>>

\* v, _ := m[k].(string) for a string the code only compares or stores.
asText(m, k) == IF isA(m, k, "string") THEN m[k].x ELSE ""

(***************************************************************************)
(* parseCommand                                                             *)
(***************************************************************************)
Timeout120s == <<"1", "2", "0", "s">>

\* The models.Arg built from one entry of the "args" object.
parseArg(argMap) ==
    [Type |-> asText(argMap, "type"),
     Description |-> asText(argMap, "description"),
     Required |-> IF isA(argMap, "required", "bool") THEN argMap["required"].b
                  ELSE FALSE]

\* parseCommand(args): the (command, error) pairs it can return.  An entry of
\* "args" that is not an object ends the loop with an error naming it; the
\* loop runs in Go's unspecified map order, so any such entry may be named.
parseCommand(args) ==
    LET base == [Name |-> asString(args, "name"),
                 Exec |-> asString(args, "exec"),
                 Args |-> EmptyMap,
                 Description |-> IF isA(args, "description", "string")
                                 THEN args["description"].x ELSE "",
                 Async |-> IF isA(args, "async", "bool") THEN args["async"].b
                           ELSE FALSE,
                 Timeout |-> IF isA(args, "timeout", "string")
                             THEN args["timeout"].s ELSE Timeout120s]
    IN  IF ~isA(args, "args", "object") THEN {[cmd |-> base, err |-> Nil]}
        ELSE LET argsRaw == args["args"].o
                 notObjects == {a \in DOMAIN argsRaw : argsRaw[a].t # "object"}
             IN  IF notObjects # {}
                 THEN {[cmd |-> base, err |-> Err("arg_not_object", a)] :
                          a \in notObjects}
                 ELSE {[cmd |-> [base EXCEPT !.Args =
                                   [a \in DOMAIN argsRaw |-> parseArg(argsRaw[a].o)]],
                        err |-> Nil]}

(***************************************************************************)
(* persist and the tool responses                                           *)
(***************************************************************************)
\* s.persist(): SaveState of the registry's Snapshot.  SaveState writes a
\* temporary file and renames it; when it fails the state file keeps its
\* contents and the failure is only logged.
persist(commands, savedBefore) ==
    {[saved |-> RegistrySnapshot(commands), ok |-> TRUE],
     [saved |-> savedBefore, ok |-> FALSE]}

\* respondText(id, text)
respondText(content) == [isError |-> FALSE, content |-> content]

\* respondError(id, text)
respondError(content) == [isError |-> TRUE, content |-> content]

\* A plain message as the text of a response.
Message(text) == [message |-> text]

\* The execBatchOp calls made for the first n operations of a batch, as steps.
ExecSteps(n) == [j \in 1..n |-> "exec"]

\* What a handler has done when it returns: the registry, the state file,
\* the response written, the steps it took in order ("exec": an execBatchOp
\* call, "load": registry.Load of the snapshot, "persist": a persist() call,
\* "execute": an Execute call, "respond": the response written) and the number
\* of persist() calls among them.
Handled(commands, savedNow, resp, steps) ==
    [commands |-> commands, saved |-> savedNow, resp |-> resp, steps |-> steps,
     persists |-> Cardinality({j \in DOMAIN steps : steps[j] = "persist"})]

(***************************************************************************)
(* batch_exec                                                               *)
(***************************************************************************)
\* execBatchOp whose default case returns nil: an operation of an unknown
\* kind is skipped as a success.
execBatchOpLenient(commands, op) ==
    CASE op.Operation = "add_command" ->
           UNION { IF p.err # Nil THEN {Outcome(commands, p.err)}
                   ELSE RegistryAdd(commands, p.cmd)
                   : p \in parseCommand(op.Params) }
      [] op.Operation = "remove_command" ->
           IF asString(op.Params, "name") = <<>>
           THEN {Outcome(commands, Err("name_is_required", <<>>))}
           ELSE {RegistryRemove(commands, asString(op.Params, "name"))}
      [] op.Operation = "update_command" ->
           IF asString(op.Params, "name") = <<>>
           THEN {Outcome(commands, Err("name_is_required", <<>>))}
           ELSE UNION { IF p.err # Nil THEN {Outcome(commands, p.err)}
                        ELSE RegistryUpdate(commands, asString(op.Params, "name"), p.cmd)
                        : p \in parseCommand(op.Params) }
      [] OTHER -> {Outcome(commands, Nil)}

\* execBatchOp(op): the outcomes of one batch operation on the registry.
execBatchOp(commands, op) ==
    CASE op.Operation = "add_command" ->
           UNION { IF p.err # Nil THEN {Outcome(commands, p.err)}
                   ELSE RegistryAdd(commands, p.cmd)
                   : p \in parseCommand(op.Params) }
      [] op.Operation = "remove_command" ->
           IF asString(op.Params, "name") = <<>>
           THEN {Outcome(commands, Err("name_is_required", <<>>))}
           ELSE {RegistryRemove(commands, asString(op.Params, "name"))}
      [] op.Operation = "update_command" ->
           IF asString(op.Params, "name") = <<>>
           THEN {Outcome(commands, Err("name_is_required", <<>>))}
           ELSE UNION { IF p.err # Nil THEN {Outcome(commands, p.err)}
                        ELSE RegistryUpdate(commands, asString(op.Params, "name"), p.cmd)
                        : p \in parseCommand(op.Params) }
      [] OTHER -> {Outcome(commands, Err("unknown_operation", op.Operation))}

\* batchResult{Index: i, Operation: ..., Name: ..., Success: ..., Error: ...}
\* for the operation at position i (1-based here, Index is 0-based).
batchResult(i, op, err) ==
    [Index |-> i - 1, Operation |-> op.Operation,
     Name |-> asString(op.Params, "name"), Success |-> err = Nil, Error |-> err]

\* The loop of batchAtomic with s.persist() also on the failure path, after
\* the rollback.
RECURSIVE batchAtomicPersistOnFailure(_, _, _, _, _, _)
batchAtomicPersistOnFailure(snapshot, commands, savedBefore, ops, i, results) ==
    IF i > Len(ops)
    THEN { Handled(commands, p.saved,
                   respondText([success |-> TRUE,
                                summary |-> <<Len(results), Len(results)>>,
                                results |-> results]),
                   ExecSteps(Len(results)) \o <<"persist", "respond">>)
           : p \in persist(commands, savedBefore) }
    ELSE UNION {
           IF o.err # Nil
           THEN { Handled(RegistryLoad(o.commands, snapshot), p.saved,
                          respondError([success |-> FALSE,
                                        rolled_back |-> TRUE,
                                        failed_at |-> i - 1,
                                        error |-> o.err,
                                        results |-> Append(results,
                                                      batchResult(i, ops[i], o.err))]),
                          ExecSteps(i) \o <<"load", "persist", "respond">>)
                  : p \in persist(RegistryLoad(o.commands, snapshot), savedBefore) }
           ELSE batchAtomicPersistOnFailure(snapshot, o.commands, savedBefore, ops,
                                            i + 1,
                                            Append(results, batchResult(i, ops[i], Nil)))
           : o \in execBatchOp(commands, ops[i]) }

\* The loop of batchAtomic without the return in its failure branch: the
\* operations after a failing one are attempted too, and the rollback and the
\* failure response come after the last operation.
RECURSIVE batchAtomicNoStop(_, _, _, _, _, _)
batchAtomicNoStop(snapshot, commands, savedBefore, ops, i, results) ==
    IF i > Len(ops)
    THEN LET failed == {j \in DOMAIN results : ~results[j].Success}
         IN  IF failed = {}
             THEN { Handled(commands, p.saved,
                            respondText([success |-> TRUE,
                                         summary |-> <<Len(results), Len(results)>>,
                                         results |-> results]),
                            ExecSteps(Len(results)) \o <<"persist", "respond">>)
                    : p \in persist(commands, savedBefore) }
             ELSE LET k == CHOOSE j \in failed : \A m \in failed : j <= m
                  IN  { Handled(RegistryLoad(commands, snapshot), savedBefore,
                                respondError([success |-> FALSE,
                                              rolled_back |-> TRUE,
                                              failed_at |-> k - 1,
                                              error |-> results[k].Error,
                                              results |-> results]),
                                ExecSteps(Len(results)) \o <<"load", "respond">>) }
    ELSE UNION {
           batchAtomicNoStop(snapshot, o.commands, savedBefore, ops, i + 1,
                             Append(results, batchResult(i, ops[i], o.err)))
           : o \in execBatchOp(commands, ops[i]) }

\* The loop of batchAtomic from operation i on: the handler's outcomes.
RECURSIVE batchAtomicFrom(_, _, _, _, _, _)
batchAtomicFrom(snapshot, commands, savedBefore, ops, i, results) ==
    IF i > Len(ops)
    THEN { Handled(commands, p.saved,
                   respondText([success |-> TRUE,
                                summary |-> <<Len(results), Len(results)>>,
                                results |-> results]),
                   ExecSteps(Len(results)) \o <<"persist", "respond">>)
           : p \in persist(commands, savedBefore) }
    ELSE UNION {
           IF o.err # Nil
           THEN { Handled(RegistryLoad(o.commands, snapshot), savedBefore,
                          respondError([success |-> FALSE,
                                        rolled_back |-> TRUE,
                                        failed_at |-> i - 1,
                                        error |-> o.err,
                                        results |-> Append(results,
                                                      batchResult(i, ops[i], o.err))]),
                          ExecSteps(i) \o <<"load", "respond">>) }
           ELSE batchAtomicFrom(snapshot, o.commands, savedBefore, ops, i + 1,
                                Append(results, batchResult(i, ops[i], Nil)))
           : o \in execBatchOp(commands, ops[i]) }

\* batchAtomic(msg, ops)
batchAtomic(commands, savedBefore, ops) ==
    batchAtomicFrom(RegistrySnapshot(commands), commands, savedBefore, ops, 1, <<>>)

\* The loop of batchPartial with succeeded++ outside the else branch: every
\* operation is counted as succeeded.
RECURSIVE batchPartialCountAll(_, _, _, _, _, _)
batchPartialCountAll(commands, savedBefore, ops, i, results, succeeded) ==
    IF i > Len(ops)
    THEN LET content == [success |-> succeeded = Len(results),
                         summary |-> <<succeeded, Len(results)>>,
                         results |-> results]
             resp == IF succeeded = Len(results) THEN respondText(content)
                                                 ELSE respondError(content)
         IN  IF succeeded > 0
             THEN { Handled(commands, p.saved, resp,
                            ExecSteps(Len(results)) \o <<"persist", "respond">>)
                    : p \in persist(commands, savedBefore) }
             ELSE { Handled(commands, savedBefore, resp,
                            ExecSteps(Len(results)) \o <<"respond">>) }
    ELSE UNION {
           batchPartialCountAll(o.commands, savedBefore, ops, i + 1,
                                Append(results, batchResult(i, ops[i], o.err)),
                                succeeded + 1)
           : o \in execBatchOp(commands, ops[i]) }

\* The loop of batchPartial with s.persist() outside the succeeded > 0 test:
\* every partial batch persists.
RECURSIVE batchPartialPersistAlways(_, _, _, _, _, _)
batchPartialPersistAlways(commands, savedBefore, ops, i, results, succeeded) ==
    IF i > Len(ops)
    THEN LET content == [success |-> succeeded = Len(results),
                         summary |-> <<succeeded, Len(results)>>,
                         results |-> results]
             resp == IF succeeded = Len(results) THEN respondText(content)
                                                 ELSE respondError(content)
         IN  { Handled(commands, p.saved, resp,
                       ExecSteps(Len(results)) \o <<"persist", "respond">>)
               : p \in persist(commands, savedBefore) }
    ELSE UNION {
           batchPartialPersistAlways(o.commands, savedBefore, ops, i + 1,
                                     Append(results, batchResult(i, ops[i], o.err)),
                                     IF o.err = Nil THEN succeeded + 1 ELSE succeeded)
           : o \in execBatchOp(commands, ops[i]) }

\* The steps of a loop that calls persist() after each operation that
\* succeeded.
RECURSIVE persistEachSteps(_, _)
persistEachSteps(results, i) ==
    IF i > Len(results) THEN <<"respond">>
    ELSE (IF results[i].Success THEN <<"exec", "persist">> ELSE <<"exec">>)
         \o persistEachSteps(results, i + 1)

\* The loop of batchPartial with s.persist() inside the loop, after each
\* operation that succeeded, instead of once after the loop.
RECURSIVE batchPartialPersistEach(_, _, _, _, _, _)
batchPartialPersistEach(commands, savedBefore, ops, i, results, succeeded) ==
    IF i > Len(ops)
    THEN LET content == [success |-> succeeded = Len(results),
                         summary |-> <<succeeded, Len(results)>>,
                         results |-> results]
             resp == IF succeeded = Len(results) THEN respondText(content)
                                                 ELSE respondError(content)
         IN  { Handled(commands, savedBefore, resp, persistEachSteps(results, 1)) }
    ELSE UNION {
           IF o.err = Nil
           THEN UNION { batchPartialPersistEach(
                          o.commands, p.saved, ops, i + 1,
                          Append(results, batchResult(i, ops[i], o.err)),
                          succeeded + 1)
                        : p \in persist(o.commands, savedBefore) }
           ELSE batchPartialPersistEach(
                  o.commands, savedBefore, ops, i + 1,
                  Append(results, batchResult(i, ops[i], o.err)), succeeded)
           : o \in execBatchOp(commands, ops[i]) }

\* The loop of batchPartial from operation i on, then its tail.
RECURSIVE batchPartialFrom(_, _, _, _, _, _)
batchPartialFrom(commands, savedBefore, ops, i, results, succeeded) ==
    IF i > Len(ops)
    THEN LET content == [success |-> succeeded = Len(results),
                         summary |-> <<succeeded, Len(results)>>,
                         results |-> results]
             resp == IF succeeded = Len(results) THEN respondText(content)
                                                 ELSE respondError(content)
         IN  IF succeeded > 0
             THEN { Handled(commands, p.saved, resp,
                            ExecSteps(Len(results)) \o <<"persist", "respond">>)
                    : p \in persist(commands, savedBefore) }
             ELSE { Handled(commands, savedBefore, resp,
                            ExecSteps(Len(results)) \o <<"respond">>) }
    ELSE UNION {
           batchPartialFrom(o.commands, savedBefore, ops, i + 1,
                            Append(results, batchResult(i, ops[i], o.err)),
                            IF o.err = Nil THEN succeeded + 1 ELSE succeeded)
           : o \in execBatchOp(commands, ops[i]) }

\* batchPartial that takes the atomic path (the flag ignored).
batchPartialAsAtomic(commands, savedBefore, ops) ==
    batchAtomic(commands, savedBefore, ops)

\* batchPartial(msg, ops)
batchPartial(commands, savedBefore, ops) ==
    batchPartialFrom(commands, savedBefore, ops, 1, <<>>, 0)

\* The batchOperation parsed from one element of "commands".
parseBatchOp(raw) ==
    [Operation |-> asText(raw.o, "operation"),
     Params |-> IF isA(raw.o, "params", "object") THEN raw.o["params"].o
                ELSE EmptyMap]

\* The atomic flag of a batch_exec call: true unless "atomic" is a bool.
atomicFlag(arguments) ==
    IF isA(arguments, "atomic", "bool") THEN arguments["atomic"].b ELSE TRUE

\* The first element of "commands" the parsing loop rejects (0: none), from
\* element i on.
RECURSIVE firstBadElement(_, _)
firstBadElement(cmdsRaw, i) ==
    IF i > Len(cmdsRaw) THEN 0
    ELSE IF cmdsRaw[i].t # "object" \/ parseBatchOp(cmdsRaw[i]).Operation = ""
         THEN i
         ELSE firstBadElement(cmdsRaw, i + 1)

\* handleBatchExec(msg, params): the handler's outcomes.
handleBatchExec(commands, savedBefore, arguments) ==
    IF ~isA(arguments, "commands", "array") \/ Len(arguments["commands"].a) = 0
    THEN { Handled(commands, savedBefore,
                   respondError(Message("commands must be a non-empty array")),
                   <<"respond">>) }
    ELSE LET cmdsRaw == arguments["commands"].a
             bad == firstBadElement(cmdsRaw, 1)
             ops == [i \in 1..Len(cmdsRaw) |-> parseBatchOp(cmdsRaw[i])]
         IN  IF bad # 0
             THEN { Handled(commands, savedBefore,
                            respondError(
                              IF cmdsRaw[bad].t # "object"
                              THEN [message |-> "commands[i] must be an object",
                                    i |-> bad - 1]
                              ELSE [message |-> "commands[i] missing operation",
                                    i |-> bad - 1]), <<"respond">>) }
             ELSE IF atomicFlag(arguments)
                  THEN batchAtomic(commands, savedBefore, ops)
                  ELSE batchPartial(commands, savedBefore, ops)

(***************************************************************************)
(* SpecBatch: the server handling batch_exec tool calls                     *)
(***************************************************************************)
MaxOps == 3

\* {"operation": operation, "params": params}
BatchOp(operation, params) ==
    JObject([operation |-> JText(operation), params |-> JObject(params)])

NameA == <<"a">>

NameC == <<"C">>

\* The elements of "commands" the callers send.
BatchOps ==
    { BatchOp("add_command", [name |-> JString(NameA), exec |-> JString(ExecEcho)]),
      BatchOp("add_command", [name |-> JString(<<"b", "_", "1">>),
                              exec |-> JString(ExecEcho),
                              timeout |-> JString(<<"5", "x">>)]),
      BatchOp("add_command",
              [name |-> JString(NameC), exec |-> JString(ExecEcho),
               timeout |-> JString(<<"5", "m">>),
               args |-> JObject([msg |-> JObject([type |-> JText("string"),
                                                  required |-> JBool(TRUE)])])]),
      BatchOp("remove_command", [name |-> JString(NameA)]),
      BatchOp("update_command", [name |-> JString(NameA), exec |-> JString(ExecOther),
                                 description |-> JText("new")]),
      BatchOp("rename_command", [name |-> JString(NameA)]) }

\* All sequences of 1..n elements of S.
RECURSIVE SeqsUpTo(_, _)
SeqsUpTo(S, n) ==
    IF n = 0 THEN {}
    ELSE LET shorter == SeqsUpTo(S, n - 1)
         IN  {<<x>> : x \in S} \cup shorter
             \cup {Append(q, x) : q \in shorter, x \in S}

\* The arguments of the batch_exec calls: every list of up to MaxOps
\* operations, with "atomic" absent (the default, true) or false; every
\* single operation with "atomic" true; and calls whose "commands" is missing, empty, not an array, or holds an element that is
\* not an object or names no operation.
BatchRequests ==
    LET lists == SeqsUpTo(BatchOps, MaxOps)
        anOp == BatchOp("remove_command", [name |-> JString(NameA)])
    IN  {[commands |-> JArray(l)] : l \in lists}
        \cup {[commands |-> JArray(l), atomic |-> JBool(FALSE)] : l \in lists}
        \cup {[commands |-> JArray(<<x>>), atomic |-> JBool(TRUE)] : x \in BatchOps}
        \cup { [atomic |-> JBool(FALSE)],
               [commands |-> JArray(<<>>)],
               [commands |-> JString(NameA), atomic |-> JBool(TRUE)],
               [commands |-> JArray(<<anOp, JNumber(5)>>), atomic |-> JBool(FALSE)],
               [commands |-> JArray(<<anOp, JObject([params |-> JObject(EmptyMap)])>>)],
               [commands |-> JArray(<<anOp>>), atomic |-> JString(<<"n", "o">>)] }

\* tools/call of batch_exec, from the request read to the response written.
BatchExec ==
    /\ last = Idle
    /\ \E arguments \in BatchRequests :
         \E h \in handleBatchExec(registry, saved, arguments) :
            /\ registry' = h.commands
            /\ saved' = h.saved
            /\ last' = [op |-> "batch_exec", arguments |-> arguments,
                        pre |-> registry, preSaved |-> saved,
                        resp |-> h.resp, steps |-> h.steps,
                        persists |-> h.persists]
    /\ UNCHANGED <<heap, snap>>
    /\ UNCHANGED concVars
    /\ UNCHANGED <<phase, loop>>

NextBatch ==
    \/ BatchExec
    \/ Return

SpecBatch == Init /\ [][NextBatch]_vars

(***************************************************************************)
(* SpecAlias: the registry with Go's reference semantics for Command.Args   *)
(*                                                                          *)
(* A models.Command is a struct whose Args field is a map, and a Go map     *)
(* value is a reference: copying the struct (into r.commands, out of Get,   *)
(* through maps.Copy) copies the reference, not the map.  Here the Args     *)
(* field of a stored Command is an address into heap.  SpecRegistry keeps   *)
(* Args by value, which is the same thing as long as no caller writes to an *)
(* Args map it has handed over or been handed.                              *)
(***************************************************************************)
MaxAddr == 3

Addrs == 1..MaxAddr

\* The Command at cmd with its Args map read through the heap.
Deref(cmd) == [cmd EXCEPT !.Args = heap[cmd.Args]]

\* What Get/List show of a map of Commands: every Args map read through.
View(m) == [n \in DOMAIN m |-> Deref(m[n])]

AliasNames == {<<"a">>, <<"C">>}

\* Values a caller stores into an Args map it holds.
AliasArgValues == {arg("number", FALSE), arg("boolean", TRUE)}

\* r.Add(cmd) with cmd.Args a map the caller has just made (at address a).
AliasAdd ==
    /\ last = Idle
    /\ \E n \in AliasNames : \E a \in Addrs \ DOMAIN heap :
        LET c == testCommand(n)
            ref == [c EXCEPT !.Args = a]
        IN  \E o \in RegistryAdd(View(registry), c) :
              /\ heap' = MapSet(heap, a, c.Args)
              /\ registry' = IF o.err = Nil THEN MapSet(registry, n, ref)
                                            ELSE registry
              /\ last' = Call("AliasAdd", n, c, View(registry), o.err, View(snap))
    /\ UNCHANGED <<snap, saved>>
    /\ UNCHANGED concVars
    /\ UNCHANGED <<phase, loop>>

\* r.Remove(name)
AliasRemove ==
    /\ last = Idle
    /\ \E n \in AliasNames :
        LET o == RegistryRemove(registry, n)
        IN  /\ registry' = o.commands
            /\ last' = Call("AliasRemove", n, ZeroCommand, View(registry), o.err,
                            View(snap))
    /\ UNCHANGED <<heap, snap, saved>>
    /\ UNCHANGED concVars
    /\ UNCHANGED <<phase, loop>>

\* snap = r.Snapshot()
AliasSnapshot ==
    /\ last = Idle
    /\ snap' = RegistrySnapshot(registry)
    /\ last' = Call("AliasSnapshot", <<>>, ZeroCommand, View(registry), Nil, View(snap))
    /\ UNCHANGED <<registry, heap, saved>>
    /\ UNCHANGED concVars
    /\ UNCHANGED <<phase, loop>>

\* r.Load(snap)
AliasLoad ==
    /\ last = Idle
    /\ registry' = RegistryLoad(registry, snap)
    /\ last' = Call("AliasLoad", <<>>, ZeroCommand, View(registry), Nil, View(snap))
    /\ UNCHANGED <<heap, snap, saved>>
    /\ UNCHANGED concVars
    /\ UNCHANGED <<phase, loop>>

\* snap[name] = cmd, cmd.Args a map the caller has just made.
SnapInsert ==
    /\ last = Idle
    /\ \E n \in AliasNames : \E a \in Addrs \ DOMAIN heap :
        LET c == leanCommand(n)
        IN  /\ heap' = MapSet(heap, a, c.Args)
            /\ snap' = MapSet(snap, n, [c EXCEPT !.Args = a])
            /\ last' = Call("SnapInsert", n, c, View(registry), Nil, View(snap))
    /\ UNCHANGED <<registry, saved>>
    /\ UNCHANGED concVars
    /\ UNCHANGED <<phase, loop>>

\* delete(snap, name)
SnapDelete ==
    /\ last = Idle
    /\ \E n \in DOMAIN snap :
        /\ snap' = MapDelete(snap, n)
        /\ last' = Call("SnapDelete", n, ZeroCommand, View(registry), Nil, View(snap))
    /\ UNCHANGED <<registry, heap, saved>>
    /\ UNCHANGED concVars
    /\ UNCHANGED <<phase, loop>>

\* snap[name].Args[p] = v
SnapSetArg ==
    /\ last = Idle
    /\ \E n \in DOMAIN snap : \E p \in {"msg"} : \E v \in AliasArgValues :
        /\ heap' = [heap EXCEPT ![snap[n].Args] = MapSet(@, p, v)]
        /\ last' = Call("SnapSetArg", n, ZeroCommand, View(registry), Nil, View(snap))
    /\ UNCHANGED <<registry, snap, saved>>
    /\ UNCHANGED concVars
    /\ UNCHANGED <<phase, loop>>

NextAlias ==
    \/ AliasAdd
    \/ AliasRemove
    \/ AliasSnapshot
    \/ AliasLoad
    \/ SnapInsert
    \/ SnapDelete
    \/ SnapSetArg
    \/ Return

SpecAlias == Init /\ [][NextAlias]_vars

\* C10: the map Snapshot returns and the map passed to Load are independent
\* of the live catalog: no write to the caller's map (an entry added or
\* deleted, a parameter mapping of one of its definitions changed) changes
\* what Get/List return, and no catalog mutation changes what the caller's
\* map holds.
C10_SnapshotIndependent ==
    /\ last.op \in {"SnapInsert", "SnapDelete", "SnapSetArg"}
         => View(registry) = last.pre
    /\ last.op \in {"AliasAdd", "AliasRemove", "AliasLoad"}
         => View(snap) = last.ret

(***************************************************************************)
(* SpecConc: goroutines calling the registry concurrently                   *)
(*                                                                          *)
(* Every Registry method takes r.mu (Lock for Add, Remove, Update and Load, *)
(* RLock for Get, List, Snapshot and Len) and releases it by a deferred     *)
(* unlock when it returns.  A goroutine runs a job, a sequence of registry  *)
(* calls; a step is the acquisition of the lock, the check of a writer      *)
(* (the read of r.commands), its write together with the deferred Unlock,   *)
(* or the read of a reader together with the deferred RUnlock.  A round is  *)
(* what TestRegistryConcurrency does: start goroutines, wg.Wait().          *)
(***************************************************************************)
MaxGoroutines == 2

\* r.mu.Lock() that never waits.
CanLockUnguarded(m) == TRUE

\* r.mu.Lock() that waits for a writer only, like RLock.
CanLockIgnoringReaders(m) == m.writer = 0

\* r.mu.Lock() returns once no writer and no reader holds the lock.
CanLock(m) == m.writer = 0 /\ m.readers = {}

\* r.mu.RLock() returns once no writer holds the lock.
CanRLock(m) == m.writer = 0

WriteOps == {"Add", "Remove", "Update", "Load"}

ReadOps == {"Get", "List", "Snapshot", "Len"}

\* A call of a Registry method with its arguments.
RegCall(op, name, cmd, commands) ==
    [op |-> op, name |-> name, cmd |-> cmd, commands |-> commands]

\* A job: the registry calls a goroutine makes in order.  An atomic job is
\* batchAtomic seen from the registry: Snapshot, one call per operation,
\* and on the first failing call Load of the snapshot instead of the rest;
\* its last call is the Snapshot that persist() takes.
Job(kind, todo, atomic) == [kind |-> kind, todo |-> todo, atomic |-> atomic]

\* The jobs the goroutines of a round are given.
JobMenu ==
    << Job("add", <<RegCall("Add", <<>>, testCommand(NameA), EmptyMap)>>, FALSE),
       Job("add", <<RegCall("Add", <<>>, leanCommand(NameA), EmptyMap)>>, FALSE),
       Job("add", <<RegCall("Add", <<>>, testCommand(NameC), EmptyMap)>>, FALSE),
       Job("add", <<RegCall("Add", <<>>,
                            [testCommand(<<"b", "_", "1">>) EXCEPT
                                !.Timeout = <<"5", "x">>], EmptyMap)>>, FALSE),
       Job("update", <<RegCall("Update", NameA, testCommand(NameC), EmptyMap)>>, FALSE),
       Job("read", <<RegCall("Get", NameA, ZeroCommand, EmptyMap),
                     RegCall("List", <<>>, ZeroCommand, EmptyMap)>>, FALSE),
       Job("read", <<RegCall("Len", <<>>, ZeroCommand, EmptyMap)>>, FALSE),
       Job("batch", <<RegCall("Snapshot", <<>>, ZeroCommand, EmptyMap),
                      RegCall("Add", <<>>, leanCommand(<<"b", "_", "1">>), EmptyMap),
                      RegCall("Remove", NameA, ZeroCommand, EmptyMap),
                      RegCall("Snapshot", <<>>, ZeroCommand, EmptyMap)>>, TRUE) >>

\* A goroutine about to start its job: its position, its locals (found: what
\* the check read; seen: r.commands as read under the lock; snapshot: the
\* map its Snapshot call returned) and the log of its completed calls.
Goroutine(job) ==
    [kind |-> job.kind, todo |-> job.todo, atomic |-> job.atomic,
     pc |-> "start", found |-> FALSE, seen |-> EmptyMap, snapshot |-> EmptyMap,
     log |-> <<>>]

\* A completed call: whether it took the lock, r.commands as it read it,
\* r.commands as it left it, and the error it returned.
LogEntry(call, locked, seen, after, err) ==
    [call |-> call, locked |-> locked, seen |-> seen, after |-> after, err |-> err]

\* The goroutine g after its current call has returned with entry: the next
\* call of the job, or the rollback when an atomic job's call failed.
Finish(g, entry) ==
    LET failed == entry.err # Nil
        todo == IF g.atomic /\ failed
                THEN <<RegCall("Load", <<>>, ZeroCommand, g.snapshot)>>
                ELSE Tail(g.todo)
    IN  [g EXCEPT !.log = Append(@, entry),
                  !.todo = todo,
                  !.atomic = @ /\ ~failed,
                  !.pc = IF todo = <<>> THEN "done" ELSE "start"]

\* go func() { ... }() for up to MaxGoroutines goroutines.  Goroutines are
\* interchangeable, so the jobs are handed out in menu order.
Spawn ==
    /\ last = Idle
    /\ goroutines = <<>>
    /\ \E n \in 1..MaxGoroutines : \E f \in [1..n -> 1..Len(JobMenu)] :
         /\ \A i \in 1..(n - 1) : f[i] <= f[i + 1]
         /\ goroutines' = [p \in 1..n |-> Goroutine(JobMenu[f[p]])]
    /\ last' = Call("spawn", <<>>, ZeroCommand, registry, Nil, <<>>)
    /\ UNCHANGED <<registry, mu, callerVars, phase, loop>>

\* Add or Update returns the error of validateCommand, before taking the lock.
CallRejected(p) ==
    LET g == goroutines[p]
        c == Head(g.todo)
    IN  /\ g.pc = "start"
        /\ c.op \in {"Add", "Update"}
        /\ \E e \in validateCommand(c.cmd) :
             /\ e # Nil
             /\ goroutines' = [goroutines EXCEPT ![p] =
                                 Finish(g, LogEntry(c, FALSE, EmptyMap, EmptyMap, e))]
        /\ UNCHANGED <<registry, last, mu, callerVars, phase, loop>>

\* r.mu.Lock() of Add, Remove, Update and Load returns.
Lock(p) ==
    LET g == goroutines[p]
        c == Head(g.todo)
    IN  /\ g.pc = "start"
        /\ c.op \in WriteOps
        /\ c.op \in {"Add", "Update"} => validateCommand(c.cmd) = {Nil}
        /\ CanLock(mu)
        /\ mu' = [mu EXCEPT !.writer = p]
        /\ goroutines' = [goroutines EXCEPT ![p].pc = "locked"]
        /\ UNCHANGED <<registry, last, callerVars, phase, loop>>

\* r.mu.RLock() of Get, List, Snapshot and Len returns.
RLock(p) ==
    LET g == goroutines[p]
        c == Head(g.todo)
    IN  /\ g.pc = "start"
        /\ c.op \in ReadOps
        /\ CanRLock(mu)
        /\ mu' = [mu EXCEPT !.readers = @ \cup {p}]
        /\ goroutines' = [goroutines EXCEPT ![p].pc = "locked"]
        /\ UNCHANGED <<registry, last, callerVars, phase, loop>>

\* The key whose presence a writer checks.
CheckedKey(c) == IF c.op = "Add" THEN c.cmd.Name ELSE c.name

\* _, exists := r.commands[name] of Add, Remove and Update.
Check(p) ==
    LET g == goroutines[p]
        c == Head(g.todo)
    IN  /\ g.pc = "locked"
        /\ c.op \in {"Add", "Remove", "Update"}
        /\ goroutines' = [goroutines EXCEPT
                            ![p].found = CheckedKey(c) \in DOMAIN registry,
                            ![p].seen = registry,
                            ![p].pc = "checked"]
        /\ UNCHANGED <<registry, last, mu, callerVars, phase, loop>>

\* The rest of a writer after its check: the error return or the write to
\* r.commands, then the deferred r.mu.Unlock().  Load has no check.
Write(p) ==
    LET g == goroutines[p]
        c == Head(g.todo)
        key == CheckedKey(c)
        err == IF c.op = "Add" /\ g.found THEN Err("already_exists", key)
               ELSE IF c.op \in {"Remove", "Update"} /\ ~g.found
                    THEN Err("not_found", key)
                    ELSE Nil
        after == IF err # Nil THEN registry
                 ELSE IF c.op = "Add" THEN MapSet(registry, key, c.cmd)
                 ELSE IF c.op = "Remove" THEN MapDelete(registry, key)
                 ELSE IF c.op = "Update"
                      THEN MapSet(IF c.name # c.cmd.Name
                                  THEN MapDelete(registry, c.name) ELSE registry,
                                  c.cmd.Name, c.cmd)
                 ELSE RegistryLoad(registry, c.commands)
        seen == IF c.op = "Load" THEN registry ELSE g.seen
    IN  /\ \/ g.pc = "checked"
           \/ g.pc = "locked" /\ c.op = "Load"
        /\ registry' = after
        /\ mu' = [mu EXCEPT !.writer = 0]
        /\ goroutines' = [goroutines EXCEPT ![p] =
                            Finish(g, LogEntry(c, TRUE, seen, after, err))]
        /\ UNCHANGED <<last, callerVars, phase, loop>>

\* The body of Get, List, Snapshot or Len, then the deferred r.mu.RUnlock().
Read(p) ==
    LET g == goroutines[p]
        c == Head(g.todo)
        err == IF c.op = "Get" THEN RegistryGet(registry, c.name).err ELSE Nil
        held == [g EXCEPT !.snapshot = IF c.op = "Snapshot"
                                       THEN RegistrySnapshot(registry) ELSE @]
    IN  /\ g.pc = "locked"
        /\ c.op \in ReadOps
        /\ mu' = [mu EXCEPT !.readers = @ \ {p}]
        /\ goroutines' = [goroutines EXCEPT ![p] =
                            Finish(held, LogEntry(c, TRUE, registry, registry, err))]
        /\ UNCHANGED <<registry, last, callerVars, phase, loop>>

\* wg.Wait() returns: every goroutine of the round has finished.
Wait ==
    /\ goroutines # <<>>
    /\ \A p \in DOMAIN goroutines : goroutines[p].pc = "done"
    /\ goroutines' = <<>>
    /\ last' = Idle
    /\ UNCHANGED <<registry, mu, callerVars, phase, loop>>

NextConc ==
    \/ Spawn
    \/ \E p \in DOMAIN goroutines :
         \/ CallRejected(p)
         \/ Lock(p)
         \/ RLock(p)
         \/ Check(p)
         \/ Write(p)
         \/ Read(p)
    \/ Wait

SpecConc == Init /\ [][NextConc]_vars

(***************************************************************************)
(* The Executor                                                             *)
(***************************************************************************)
DigitChars == <<"0", "1", "2", "3", "4", "5", "6", "7", "8", "9">>

DigitVal(c) == (CHOOSE i \in 1..Len(DigitChars) : DigitChars[i] = c) - 1

\* The value of the decimal digits s[i..], after acc.
RECURSIVE atoiFrom(_, _, _)
atoiFrom(s, i, acc) ==
    IF i > Len(s) THEN acc
    ELSE atoiFrom(s, i + 1, acc * Len(DigitChars) + DigitVal(s[i]))

\* The digits of the largest int (64 bits): 9223372036854775807.
MaxIntDigits ==
    <<"9", "2", "2", "3", "3", "7", "2", "0", "3", "6", "8", "5", "4", "7", "7", "5",
      "8", "0", "7">>

\* The decimal digits s without their leading zeros.
RECURSIVE stripZeros(_)
stripZeros(s) ==
    IF Len(s) >= 1 /\ s[1] = "0" THEN stripZeros(Tail(s)) ELSE s

\* The number written a is greater than the number written b (digits without
\* leading zeros).
RECURSIVE digitsGreater(_, _)
digitsGreater(a, b) ==
    IF Len(a) # Len(b) THEN Len(a) > Len(b)
    ELSE IF Len(a) = 0 THEN FALSE
    ELSE IF a[1] # b[1] THEN DigitVal(a[1]) > DigitVal(b[1])
    ELSE digitsGreater(Tail(a), Tail(b))

\* strconv.Atoi(s): an optional sign and at least one digit; a value out of
\* the range of int is an error (for a negative number the range ends one
\* further, at -9223372036854775808, which no input here writes).
Atoi(s) ==
    LET signed == Len(s) >= 1 /\ s[1] \in {"+", "-"}
        digits == IF signed THEN Tail(s) ELSE s
    IN  IF Len(digits) = 0 \/ \E i \in 1..Len(digits) : digits[i] \notin Digits
        THEN [ok |-> FALSE, n |-> 0]
        ELSE IF digitsGreater(stripZeros(digits), MaxIntDigits)
        THEN [ok |-> FALSE, n |-> 0]
        ELSE [ok |-> TRUE,
              n |-> IF signed /\ s[1] = "-" THEN 0 - atoiFrom(digits, 1, 0)
                                            ELSE atoiFrom(digits, 1, 0)]

\* A time.Duration as a count of a unit (time.Second, time.Minute, time.Hour).
Duration(num, unit) == [num |-> num, unit |-> unit]

\* parseTimeout(s): the duration and the error.
parseTimeout(s) ==
    IF Len(s) < 2
    THEN [duration |-> Duration(0, "s"), err |-> Err("invalid_timeout_format", s)]
    ELSE LET unit == s[Len(s)]
             num == Atoi(SubSeq(s, 1, Len(s) - 1))
         IN  IF ~num.ok
             THEN [duration |-> Duration(0, "s"),
                   err |-> Err("invalid_timeout_number", s)]
             ELSE IF unit \notin {"s", "m", "h"}
                  THEN [duration |-> Duration(0, "s"),
                        err |-> Err("invalid_timeout_unit", s)]
                  ELSE [duration |-> Duration(num.n, unit), err |-> Nil]

\* timeout := 120 * time.Second
DefaultTimeout == Duration(120, "s")

\* time.Duration(num) * unit is a count of nanoseconds in 64 bits: above
\* 2562047 hours or 153722867 minutes the product wraps to a negative number
\* (up to twice that many; no input here goes beyond).  Seconds wrap only
\* above 9223372036, more than the numbers used here.
wrapsNegative(d) ==
    CASE d.unit = "h" /\ d.num <= 2562047 -> FALSE
      [] d.unit = "h" /\ d.num > 2562047 /\ d.num <= 5124095 -> TRUE
      [] d.unit = "m" /\ d.num <= 153722867 -> FALSE
      [] d.unit = "m" /\ d.num > 153722867 /\ d.num <= 307445734 -> TRUE
      [] d.unit = "s" -> FALSE

\* context.WithTimeout(ctx, d) for d <= 0: the context is born expired, and
\* c.Run() returns its error without starting a process.
bornExpired(d) == d.num <= 0 \/ wrapsNegative(d)

\* argToString(val): a string is passed as it is, a whole number in decimal
\* digits, a bool as true or false, anything else as fmt prints it (%v).
argToString(val) ==
    CASE val.t = "string" -> [as |-> "string", chars |-> val.s, text |-> val.x]
      [] val.t = "number" -> [as |-> "FormatInt", chars |-> <<>>, text |-> ToString(val.n)]
      [] val.t = "bool" -> [as |-> "FormatBool", chars |-> <<>>,
                            text |-> IF val.b THEN "true" ELSE "false"]
      [] OTHER -> [as |-> "%v", chars |-> <<>>, text |-> val.t]

\* The orders in which a range loop can visit the keys in S.
RECURSIVE rangeOrders(_)
rangeOrders(S) ==
    IF S = {} THEN {<<>>}
    ELSE UNION { {<<k>> \o rest : rest \in rangeOrders(S \ {k})} : k \in S }

\* buildArgs without the test that cmd.Args defines the argument.
buildArgsAll(cmd, args) ==
    { [j \in 1..Len(order) |-> argToString(args[order[j]])]
      : order \in rangeOrders(DOMAIN args) }

\* buildArgs visiting the supplied arguments in one fixed order, as a loop
\* over a sorted slice of names would.
buildArgsFixedOrder(cmd, args) ==
    LET order == CHOOSE o \in rangeOrders({a \in DOMAIN args : a \in DOMAIN cmd.Args}) :
                    TRUE
    IN  { [j \in 1..Len(order) |-> argToString(args[order[j]])] }

\* buildArgs(cmd, args): one element per supplied argument that cmd.Args
\* defines, in the order the loop over args visits them (Go's unspecified
\* map order).
buildArgs(cmd, args) ==
    { [j \in 1..Len(order) |-> argToString(args[order[j]])]
      : order \in rangeOrders({a \in DOMAIN args : a \in DOMAIN cmd.Args}) }

\* resolveExec(path): an absolute path is taken as it is; any other is looked
\* up with exec.LookPath, which finds it (onPath) or not.
resolveExec(path, onPath) ==
    IF Len(path) >= 1 /\ path[1] = "/" THEN [path |-> path, err |-> Nil]
    ELSE IF onPath THEN [path |-> path, err |-> Nil]
    ELSE [path |-> <<>>, err |-> Err("executable_not_found", path)]

\* What the machine does with one execution: whether LookPath finds a
\* relative executable, what the process writes to stdout and stderr,
\* whether c.Run() returns an error (the process cannot be started or exits
\* non-zero), and whether the deadline passes first.
World(onPath, stdout, stderr, runErr, deadlineExceeded) ==
    [onPath |-> onPath, stdout |-> stdout, stderr |-> stderr, runErr |-> runErr,
     deadlineExceeded |-> deadlineExceeded]

\* What Execute returns, with the deadline it ran the process under and
\* whether it started one.
Executed(output, err, timeout, spawned, argv) ==
    [output |-> output, err |-> err, timeout |-> timeout, spawned |-> spawned,
     argv |-> argv]

\* The loop over cmd.Args that accepts a call only if every declared
\* parameter is supplied, required or not.
missingDeclared(cmd, args) == {a \in DOMAIN cmd.Args : a \notin DOMAIN args}

\* The required parameters of cmd that args does not hold (the loop of
\* Execute over cmd.Args returns at the first it meets).
missingRequired(cmd, args) ==
    {a \in DOMAIN cmd.Args : cmd.Args[a].Required /\ a \notin DOMAIN args}

\* output: stdout, then stderr behind the label "stderr: ", on a new line
\* when stdout is not empty.
capturedOutput(w) ==
    w.stdout \o (IF w.stderr # <<>>
                 THEN (IF w.stdout # <<>> THEN <<"\n">> ELSE <<>>)
                      \o <<"stderr: ">> \o w.stderr
                 ELSE <<>>)

\* The classification that looks at the error of c.Run() before the deadline.
classifyExitFirst(deadlineExceeded, runErr, path, timeout) ==
    IF runErr THEN Err("command_failed", path)
    ELSE IF deadlineExceeded THEN Err("timed_out", timeout)
    ELSE Nil

\* The error Execute returns after c.Run(): the deadline is looked at first,
\* then the error of c.Run().
classify(deadlineExceeded, runErr, path, timeout) ==
    IF deadlineExceeded THEN Err("timed_out", timeout)
    ELSE IF runErr THEN Err("command_failed", path)
    ELSE Nil

\* Execute(cmd, args) in the world w: its outcomes.  Texts are sequences of
\* pieces.  A missing required argument is found in the loop over cmd.Args,
\* in Go's unspecified map order, so any missing one may be named.
Execute(cmd, args, w) ==
    LET missing == missingRequired(cmd, args)
        parsed == IF cmd.Timeout # <<>> THEN parseTimeout(cmd.Timeout)
                  ELSE [duration |-> DefaultTimeout, err |-> Nil]
        resolved == resolveExec(cmd.Exec, w.onPath)
    IN  IF missing # {}
        THEN { Executed(<<>>, Err("missing_required_argument", a), DefaultTimeout,
                        FALSE, <<>>)
               : a \in missing }
        ELSE UNION {
               IF parsed.err # Nil
               THEN { Executed(<<>>, Err("invalid_timeout", cmd.Timeout),
                               DefaultTimeout, FALSE, execArgs) }
               ELSE IF resolved.err # Nil
               THEN { Executed(<<>>, resolved.err, parsed.duration, FALSE, execArgs) }
               ELSE IF bornExpired(parsed.duration)
               THEN { Executed(<<>>, classify(TRUE, TRUE, resolved.path, cmd.Timeout),
                               parsed.duration, FALSE, execArgs) }
               ELSE { Executed(capturedOutput(w),
                               classify(w.deadlineExceeded, w.runErr, resolved.path,
                                        cmd.Timeout),
                               parsed.duration, TRUE, execArgs) }
               : execArgs \in buildArgs(cmd, args) }

\* What an execution can meet.
Worlds ==
    { World(onPath, stdout, stderr, runErr, deadlineExceeded)
      : onPath \in BOOLEAN, stdout \in {<<>>, <<"out">>},
        stderr \in {<<>>, <<"warn">>}, runErr \in BOOLEAN,
        deadlineExceeded \in BOOLEAN }

\* The world of a request that executes nothing.
QuietWorld == World(TRUE, <<>>, <<>>, FALSE, FALSE)

(***************************************************************************)
(* SpecExecute: the Executor called with any definition and arguments        *)
(***************************************************************************)
\* The parameter sets of the definitions executed: none, one required, one
\* required and one optional, two required.
ExecArgDefs ==
    LET argDef(type, required) ==
            [Type |-> type, Description |-> "", Required |-> required]
    IN  { EmptyMap,
          [a \in {"msg"} |-> argDef("string", TRUE)],
          [a \in {"msg", "n"} |-> IF a = "msg" THEN argDef("string", TRUE)
                                  ELSE argDef("number", FALSE)],
          [a \in {"msg", "flag"} |-> IF a = "msg" THEN argDef("string", TRUE)
                                     ELSE argDef("boolean", TRUE)] }

\* The timeouts of the definitions executed: absent, well-formed (among them
\* zero, a number of hours beyond 64 bits of nanoseconds, the largest that is
\* not, and a number beyond the range of int), and malformed (a wrong
\* unit, no number, a sign).
ExecTimeouts ==
    { <<>>, <<"3", "0", "s">>, <<"1", "s">>, <<"0", "s">>, <<"5", "m">>,
      <<"2", "5", "6", "2", "0", "4", "7", "h">>,
      <<"2", "5", "6", "2", "0", "4", "8", "h">>,
      <<"9", "9", "9", "9", "9", "9", "9", "9", "9", "9", "9", "9", "9", "9", "9",
        "9", "9", "9", "9", "9", "s">>,
      <<"5", "x">>, <<"s">>, <<"+", "5", "s">>, <<"-", "5", "s">> }

\* The definitions executed.  Execute validates nothing: it is handed what
\* the registry holds.
ExecCommands ==
    { [Name |-> NameA, Exec |-> exe, Args |-> args, Description |-> "",
       Async |-> FALSE, Timeout |-> timeout]
      : exe \in {ExecEcho, ExecOther}, args \in ExecArgDefs, timeout \in ExecTimeouts }

\* The arguments supplied: nothing, the required ones, an undeclared one, a
\* null, values of every kind.
ExecArguments ==
    { EmptyMap,
      [msg |-> JText("hi")],
      [msg |-> JText("hi"), extra |-> JText("dropped")],
      [n |-> JNumber(7)],
      [msg |-> JText("hi"), n |-> JNumber(7)],
      [msg |-> JValue("null", <<>>, "", FALSE, 0, <<>>, <<>>), flag |-> JBool(TRUE)],
      [msg |-> JText("hi"), flag |-> JBool(FALSE), extra |-> JNumber(1)] }

\* One call of Execute(cmd, args).
ExecuteCall ==
    /\ last = Idle
    /\ \E cmd \in ExecCommands, args \in ExecArguments, w \in Worlds :
         \E x \in Execute(cmd, args, w) :
            last' = [op |-> "Execute", cmd |-> cmd, args |-> args, world |-> w,
                     output |-> x.output, err |-> x.err, timeout |-> x.timeout,
                     spawned |-> x.spawned, argv |-> x.argv]
    /\ UNCHANGED <<registry, callerVars>>
    /\ UNCHANGED concVars
    /\ UNCHANGED <<phase, loop>>

NextExecute ==
    \/ ExecuteCall
    \/ Return

SpecExecute == Init /\ [][NextExecute]_vars

(***************************************************************************)
(* The built-in tool handlers                                               *)
(***************************************************************************)
\* handleHelp
handleHelp(commands, savedBefore) ==
    { Handled(commands, savedBefore, respondText(Message("help")), <<"respond">>) }

\* The tail of a mutating handler that answers with an error when the save
\* fails.
persistOrFail(commands, savedBefore, text) ==
    { Handled(commands, p.saved,
              IF p.ok THEN respondText(Message(text))
              ELSE respondError(Message("failed to persist state")),
              <<"persist", "respond">>)
      : p \in persist(commands, savedBefore) }

\* The tail of a mutating handler whose registry call returned nil:
\* s.persist(), then respondText.
persistAndRespond(commands, savedBefore, text) ==
    { Handled(commands, p.saved, respondText(Message(text)), <<"persist", "respond">>)
      : p \in persist(commands, savedBefore) }

\* A handler's early return with respondError.
failWith(commands, savedBefore, content) ==
    Handled(commands, savedBefore, respondError(content), <<"respond">>)

\* handleAddCommand
handleAddCommand(commands, savedBefore, arguments) ==
    UNION { IF p.err # Nil THEN {failWith(commands, savedBefore, p.err)}
            ELSE UNION { IF o.err # Nil THEN {failWith(commands, savedBefore, o.err)}
                         ELSE persistAndRespond(o.commands, savedBefore, "registered")
                         : o \in RegistryAdd(commands, p.cmd) }
            : p \in parseCommand(arguments) }

\* handleRemoveCommand without its s.persist() call.
handleRemoveCommandUnsaved(commands, savedBefore, arguments) ==
    LET name == asString(arguments, "name")
        o == RegistryRemove(commands, name)
    IN  IF name = <<>>
        THEN {failWith(commands, savedBefore, Message("name is required"))}
        ELSE IF o.err # Nil THEN {failWith(commands, savedBefore, o.err)}
        ELSE { Handled(o.commands, savedBefore, respondText(Message("removed")),
                       <<"respond">>) }

\* handleRemoveCommand
handleRemoveCommand(commands, savedBefore, arguments) ==
    LET name == asString(arguments, "name")
        o == RegistryRemove(commands, name)
    IN  IF name = <<>>
        THEN {failWith(commands, savedBefore, Message("name is required"))}
        ELSE IF o.err # Nil THEN {failWith(commands, savedBefore, o.err)}
        ELSE persistAndRespond(o.commands, savedBefore, "removed")

\* handleListCommands
handleListCommands(commands, savedBefore) ==
    LET cmds == RegistryList(commands)
    IN  IF cmds = {}
        THEN { Handled(commands, savedBefore,
                       respondText(Message("No commands registered")), <<"respond">>) }
        ELSE { Handled(commands, savedBefore, respondText([commands |-> cmds]),
                       <<"respond">>) }

\* handleGetCommand
handleGetCommand(commands, savedBefore, arguments) ==
    LET name == asString(arguments, "name")
        g == RegistryGet(commands, name)
    IN  IF name = <<>>
        THEN {failWith(commands, savedBefore, Message("name is required"))}
        ELSE IF g.err # Nil THEN {failWith(commands, savedBefore, g.err)}
        ELSE { Handled(commands, savedBefore, respondText([command |-> g.cmd]),
                       <<"respond">>) }

\* handleUpdateCommand: the fields supplied are written over the existing
\* definition, which keeps its name.
handleUpdateCommand(commands, savedBefore, arguments) ==
    LET name == asString(arguments, "name")
        g == RegistryGet(commands, name)
        fields == [g.cmd EXCEPT
                     !.Exec = IF isA(arguments, "exec", "string")
                              THEN arguments["exec"].s ELSE @,
                     !.Description = IF isA(arguments, "description", "string")
                                     THEN arguments["description"].x ELSE @,
                     !.Async = IF isA(arguments, "async", "bool")
                               THEN arguments["async"].b ELSE @,
                     !.Timeout = IF isA(arguments, "timeout", "string")
                                 THEN arguments["timeout"].s ELSE @]
        argsRaw == arguments["args"].o
        notObjects == {a \in DOMAIN argsRaw : argsRaw[a].t # "object"}
        existing == IF isA(arguments, "args", "object")
                    THEN [fields EXCEPT !.Args =
                            [a \in DOMAIN argsRaw |-> parseArg(argsRaw[a].o)]]
                    ELSE fields
    IN  IF name = <<>>
        THEN {failWith(commands, savedBefore, Message("name is required"))}
        ELSE IF g.err # Nil THEN {failWith(commands, savedBefore, g.err)}
        ELSE IF isA(arguments, "args", "object") /\ notObjects # {}
        THEN { failWith(commands, savedBefore, Err("arg_not_object", a))
               : a \in notObjects }
        ELSE UNION { IF o.err # Nil THEN {failWith(commands, savedBefore, o.err)}
                     ELSE persistAndRespond(o.commands, savedBefore, "updated")
                     : o \in RegistryUpdate(commands, name, existing) }

\* What the file system does for one request: the file import_config reads
\* (unreadable, unparsable, or its "commands"), and whether export_config
\* can write its file.
FileSystem(importKind, importCommands, writeOk) ==
    [importKind |-> importKind, importCommands |-> importCommands,
     writeOk |-> writeOk]

\* The loop of handleImportConfig over the entries of the file not yet
\* visited (in Go's unspecified map order), then its tail.
RECURSIVE importFrom(_, _, _, _, _, _, _, _)
importFrom(commands, savedBefore, file, remaining, overwrite, imported, skipped, errors) ==
    IF remaining = {}
    THEN LET summary == [imported |-> imported, skipped |-> skipped,
                         errors |-> errors]
         IN  IF imported > 0
             THEN { Handled(commands, p.saved, respondText(summary),
                            <<"persist", "respond">>)
                    : p \in persist(commands, savedBefore) }
             ELSE { Handled(commands, savedBefore, respondText(summary),
                            <<"respond">>) }
    ELSE UNION {
           LET cmd == file[k]
               rest == remaining \ {k}
               existing == RegistryGet(commands, cmd.Name).cmd
           IN  IF existing.Name # <<>> /\ ~overwrite
               THEN importFrom(commands, savedBefore, file, rest, overwrite,
                               imported, skipped + 1, errors)
               ELSE UNION {
                      IF o.err # Nil
                      THEN importFrom(o.commands, savedBefore, file, rest, overwrite,
                                      imported, skipped,
                                      Append(errors, [name |-> cmd.Name, err |-> o.err]))
                      ELSE importFrom(o.commands, savedBefore, file, rest, overwrite,
                                      imported + 1, skipped, errors)
                      : o \in IF existing.Name # <<>>
                              THEN RegistryUpdate(commands, cmd.Name, cmd)
                              ELSE RegistryAdd(commands, cmd) }
           : k \in remaining }

\* handleImportConfig
handleImportConfig(commands, savedBefore, arguments, fs) ==
    LET overwrite == IF isA(arguments, "overwrite", "bool")
                     THEN arguments["overwrite"].b ELSE FALSE
    IN  IF asText(arguments, "path") = ""
        THEN {failWith(commands, savedBefore, Message("path is required"))}
        ELSE IF fs.importKind = "unreadable"
        THEN {failWith(commands, savedBefore, Message("failed to read file"))}
        ELSE IF fs.importKind = "unparsable"
        THEN {failWith(commands, savedBefore,
                       Message("failed to parse file as YAML or JSON"))}
        ELSE IF DOMAIN fs.importCommands = {}
        THEN {failWith(commands, savedBefore, Message("no commands found in file"))}
        ELSE importFrom(commands, savedBefore, fs.importCommands,
                        DOMAIN fs.importCommands, overwrite, 0, 0, <<>>)

\* handleExportConfig
handleExportConfig(commands, savedBefore, arguments, fs) ==
    LET cmds == RegistrySnapshot(commands)
    IN  IF DOMAIN cmds = {}
        THEN {failWith(commands, savedBefore, Message("no commands to export"))}
        ELSE IF ~fs.writeOk
        THEN {failWith(commands, savedBefore, Message("failed to write file"))}
        ELSE { Handled(commands, savedBefore, respondText([exported |-> DOMAIN cmds]),
                       <<"respond">>) }

(***************************************************************************)
(* tools/call                                                               *)
(***************************************************************************)
NameHelp == <<"h", "e", "l", "p">>

NameAddCommand == <<"a", "d", "d", "_", "c", "o", "m", "m", "a", "n", "d">>

NameRemoveCommand ==
    <<"r", "e", "m", "o", "v", "e", "_", "c", "o", "m", "m", "a", "n", "d">>

NameListCommands == <<"l", "i", "s", "t", "_", "c", "o", "m", "m", "a", "n", "d", "s">>

NameGetCommand == <<"g", "e", "t", "_", "c", "o", "m", "m", "a", "n", "d">>

NameBatchExec == <<"b", "a", "t", "c", "h", "_", "e", "x", "e", "c">>

NameUpdateCommand ==
    <<"u", "p", "d", "a", "t", "e", "_", "c", "o", "m", "m", "a", "n", "d">>

NameImportConfig == <<"i", "m", "p", "o", "r", "t", "_", "c", "o", "n", "f", "i", "g">>

NameExportConfig == <<"e", "x", "p", "o", "r", "t", "_", "c", "o", "n", "f", "i", "g">>

\* The keys of builtinHandlers().
BuiltinNames ==
    {NameHelp, NameAddCommand, NameRemoveCommand, NameListCommands, NameGetCommand,
     NameBatchExec, NameUpdateCommand, NameImportConfig, NameExportConfig}

\* builtinHandlers()[name](msg, params)
builtinHandler(name, commands, savedBefore, arguments, fs) ==
    CASE name = NameHelp -> handleHelp(commands, savedBefore)
      [] name = NameAddCommand -> handleAddCommand(commands, savedBefore, arguments)
      [] name = NameRemoveCommand ->
           handleRemoveCommand(commands, savedBefore, arguments)
      [] name = NameListCommands -> handleListCommands(commands, savedBefore)
      [] name = NameGetCommand -> handleGetCommand(commands, savedBefore, arguments)
      [] name = NameBatchExec -> handleBatchExec(commands, savedBefore, arguments)
      [] name = NameUpdateCommand ->
           handleUpdateCommand(commands, savedBefore, arguments)
      [] name = NameImportConfig ->
           handleImportConfig(commands, savedBefore, arguments, fs)
      [] name = NameExportConfig ->
           handleExportConfig(commands, savedBefore, arguments, fs)

\* transport.WriteError(id, code, message, nil): a JSON-RPC error object.
WriteError(code, message) == [error |-> [code |-> code, message |-> message]]

\* The text of an Executor result: pieces of text and, after them, the text
\* of an error (Nil: none).
ExecText(text, err) == [text |-> text, err |-> err]

\* The answer to an unknown tool as a tool-level error result.
unknownToolAsResult(commands, savedBefore, name) ==
    Handled(commands, savedBefore, respondError(Message("Unknown tool")), <<"respond">>)

\* The answer of handleToolsCall when the registry has no such command.
unknownTool(commands, savedBefore, name) ==
    Handled(commands, savedBefore, WriteError(-32602, "Unknown tool"), <<"respond">>)

\* A failed execution answered with a JSON-RPC error, its output dropped.
respondExecutedAsFault(commands, savedBefore, x) ==
    LET steps == IF x.spawned THEN <<"execute", "spawn", "respond">>
                              ELSE <<"execute", "respond">>
    IN  IF x.err # Nil
        THEN Handled(commands, savedBefore, WriteError(-32603, "execution failed"), steps)
        ELSE Handled(commands, savedBefore,
                     respondText(ExecText(IF x.output = <<>> THEN <<"(no output)">>
                                                             ELSE x.output, Nil)),
                     steps)

\* The answer of handleToolsCall to what Execute returned.
respondExecuted(commands, savedBefore, x) ==
    LET steps == IF x.spawned THEN <<"execute", "spawn", "respond">>
                              ELSE <<"execute", "respond">>
    IN  IF x.err # Nil
        THEN Handled(commands, savedBefore,
                     respondError(ExecText(IF x.output # <<>> THEN x.output \o <<"\n">>
                                                              ELSE <<>>, x.err)),
                     steps)
        ELSE Handled(commands, savedBefore,
                     respondText(ExecText(IF x.output = <<>> THEN <<"(no output)">>
                                                             ELSE x.output, Nil)),
                     steps)

\* handleToolsCall that looks in the registry before the built-in handlers.
handleToolsCallDynamicFirst(commands, savedBefore, params, w, fs) ==
    LET g == RegistryGet(commands, params.name)
    IN  IF g.err = Nil
        THEN { respondExecuted(commands, savedBefore, x)
               : x \in Execute(g.cmd, params.arguments, w) }
        ELSE IF params.name \in BuiltinNames
        THEN builtinHandler(params.name, commands, savedBefore, params.arguments, fs)
        ELSE { unknownTool(commands, savedBefore, params.name) }

\* handleToolsCall(msg) for params that unmarshalled: the handler's outcomes.
handleToolsCall(commands, savedBefore, params, w, fs) ==
    IF params.name \in BuiltinNames
    THEN builtinHandler(params.name, commands, savedBefore, params.arguments, fs)
    ELSE LET g == RegistryGet(commands, params.name)
         IN  IF g.err # Nil
             THEN { unknownTool(commands, savedBefore, params.name) }
             ELSE { respondExecuted(commands, savedBefore, x)
                    : x \in Execute(g.cmd, params.arguments, w) }

(***************************************************************************)
(* Startup: the state file                                                  *)
(***************************************************************************)
\* The state file main finds: missing, unreadable, not JSON, or JSON with
\* these "commands".
StateFile(kind, commands) == [kind |-> kind, commands |-> commands]

\* LoadState(path): the commands and the error.  A file that is not JSON is
\* renamed to .bak and the state starts empty.
LoadState(file) ==
    IF file.kind = "unreadable"
    THEN [commands |-> EmptyMap, err |-> Err("failed_to_read_state_file", <<>>)]
    ELSE IF file.kind = "ok" THEN [commands |-> file.commands, err |-> Nil]
    ELSE [commands |-> EmptyMap, err |-> Nil]

\* Server.LoadState(): the registry afterwards.
ServerLoadStateResult(commands, file) ==
    IF LoadState(file).err # Nil THEN commands
    ELSE RegistryLoad(commands, LoadState(file).commands)

(***************************************************************************)
(* SpecServer: the server from startup on, one tools/call at a time          *)
(***************************************************************************)
NameNope == <<"n", "o", "p", "e">>

\* A state file entry no Add would accept: stored under the key "x", named
\* "y", with no executable.
malformedCommand ==
    [Name |-> <<"y">>, Exec |-> <<>>, Args |-> EmptyMap, Description |-> "",
     Async |-> FALSE, Timeout |-> <<>>]

\* A state file entry written without its "name" field (the key gives the
\* name): json.Unmarshal leaves Command.Name empty.
namelessCommand ==
    [Name |-> <<>>, Exec |-> ExecEcho, Args |-> EmptyMap, Description |-> "",
     Async |-> FALSE, Timeout |-> <<>>]

\* The state files the server can find at startup.
StateFiles ==
    { StateFile("missing", EmptyMap),
      StateFile("unreadable", EmptyMap),
      StateFile("corrupt", EmptyMap),
      StateFile("ok", EmptyMap),
      StateFile("ok", MapSet(EmptyMap, NameA, testCommand(NameA))),
      StateFile("ok", MapSet(EmptyMap, NameHelp, leanCommand(NameHelp))),
      StateFile("ok", MapSet(EmptyMap, <<"x">>, malformedCommand)),
      StateFile("ok", MapSet(EmptyMap, NameA, namelessCommand)) }

\* The files import_config can be pointed at.
ImportFiles ==
    { FileSystem("unreadable", EmptyMap, TRUE),
      FileSystem("unparsable", EmptyMap, TRUE),
      FileSystem("ok", EmptyMap, TRUE),
      FileSystem("ok", MapSet(EmptyMap, NameA, leanCommand(NameA)), TRUE),
      FileSystem("ok", MapSet(MapSet(EmptyMap, NameC, testCommand(NameC)),
                              <<"b", "_", "1">>,
                              [leanCommand(<<"b", "_", "1">>)
                                 EXCEPT !.Timeout = <<"5", "x">>]), TRUE),
      FileSystem("ok", MapSet(MapSet(EmptyMap, NameC, testCommand(NameC)),
                              NameA,
                              [leanCommand(NameA)
                                 EXCEPT !.Timeout = <<"5", "x">>]), TRUE) }

\* The disk under export_config: the write succeeds or fails.
ExportFiles ==
    { FileSystem("unreadable", EmptyMap, TRUE),
      FileSystem("unreadable", EmptyMap, FALSE) }

\* The file system of a request that touches no configuration file.
NoFiles == FileSystem("unreadable", EmptyMap, TRUE)

\* ToolsCallParams
ToolsCallParams(name, arguments) == [name |-> name, arguments |-> arguments]

\* The tools/call requests: each built-in, well and badly used, and dynamic
\* names that are in the catalog, share a built-in's name, or are unknown.
ServerRequests ==
    { ToolsCallParams(NameHelp, EmptyMap),
      ToolsCallParams(NameHelp, [msg |-> JText("hi")]),
      ToolsCallParams(NameListCommands, EmptyMap),
      ToolsCallParams(NameGetCommand, [name |-> JString(NameA)]),
      ToolsCallParams(NameGetCommand, EmptyMap),
      ToolsCallParams(NameAddCommand,
                      [name |-> JString(NameA), exec |-> JString(ExecEcho),
                       args |-> JObject([msg |-> JObject([type |-> JText("string"),
                                                          required |-> JBool(TRUE)])])]),
      ToolsCallParams(NameAddCommand,
                      [name |-> JString(NameHelp), exec |-> JString(ExecOther)]),
      ToolsCallParams(NameAddCommand, [name |-> JString(NameA)]),
      ToolsCallParams(NameRemoveCommand, [name |-> JString(NameA)]),
      ToolsCallParams(NameRemoveCommand, [name |-> JString(NameHelp)]),
      ToolsCallParams(NameUpdateCommand,
                      [name |-> JString(NameA), timeout |-> JString(<<"5", "x">>)]),
      ToolsCallParams(NameUpdateCommand,
                      [name |-> JString(NameA), exec |-> JString(ExecOther)]),
      ToolsCallParams(NameUpdateCommand,
                      [name |-> JString(<<"x">>), exec |-> JString(ExecOther)]),
      ToolsCallParams(NameBatchExec,
                      [commands |-> JArray(<<BatchOp("add_command",
                                                     [name |-> JString(NameC),
                                                      exec |-> JString(ExecOther)]),
                                             BatchOp("remove_command",
                                                     [name |-> JString(NameA)])>>),
                       atomic |-> JBool(FALSE)]),
      ToolsCallParams(NameBatchExec,
                      [commands |-> JArray(<<BatchOp("update_command",
                                                     [name |-> JString(NameA),
                                                      description |-> JText("new")])>>)]),
      ToolsCallParams(NameBatchExec, EmptyMap),
      ToolsCallParams(NameImportConfig, [path |-> JText("import.yaml")]),
      ToolsCallParams(NameImportConfig,
                      [path |-> JText("import.yaml"), overwrite |-> JBool(TRUE)]),
      ToolsCallParams(NameImportConfig, EmptyMap),
      ToolsCallParams(NameExportConfig, EmptyMap),
      ToolsCallParams(NameA, [msg |-> JText("hi")]),
      ToolsCallParams(NameA, EmptyMap),
      ToolsCallParams(NameC, EmptyMap),
      ToolsCallParams(NameNope, EmptyMap),
      ToolsCallParams(<<>>, EmptyMap) }

\* main: s.LoadState() once, before Run.  A read error is logged and the
\* server runs with the registry as it is.
ServerLoadState ==
    /\ phase = "boot"
    /\ last = Idle
    /\ \E file \in StateFiles :
         /\ registry' = ServerLoadStateResult(registry, file)
         /\ saved' = IF file.kind = "ok" THEN file.commands ELSE EmptyMap
         /\ last' = [op |-> "LoadState", file |-> file, pre |-> registry,
                     err |-> LoadState(file).err]
    /\ phase' = "run"
    /\ UNCHANGED <<heap, snap>>
    /\ UNCHANGED concVars
    /\ UNCHANGED loop

\* Run: one tools/call message, from the request read to the response
\* written.
ToolsCall ==
    /\ phase = "run"
    /\ last = Idle
    /\ \E params \in ServerRequests :
         \E w \in (IF params.name \in BuiltinNames THEN {QuietWorld} ELSE Worlds),
            fs \in (IF params.name = NameImportConfig THEN ImportFiles
                    ELSE IF params.name = NameExportConfig THEN ExportFiles
                    ELSE {NoFiles}) :
            \E h \in handleToolsCall(registry, saved, params, w, fs) :
               /\ registry' = h.commands
               /\ saved' = h.saved
               /\ last' = [op |-> "tools/call", params |-> params, world |-> w,
                           files |-> fs, pre |-> registry, preSaved |-> saved,
                           resp |-> h.resp, steps |-> h.steps]
    /\ UNCHANGED <<heap, snap>>
    /\ UNCHANGED concVars
    /\ UNCHANGED <<phase, loop>>

NextServer ==
    \/ ServerLoadState
    \/ ToolsCall
    \/ Return

SpecServer == Init /\ [][NextServer]_vars

(***************************************************************************)
(* tools/list and initialize                                                *)
(***************************************************************************)
\* Tool{Name, Description, InputSchema{Type: "object", Properties, Required}}.
\* Required is a set: for a dynamic tool the slice is filled in map order.
Tool(name, description, properties, required) ==
    [Name |-> name, Description |-> description,
     InputSchema |-> [Type |-> "object", Properties |-> properties,
                      Required |-> required]]

\* One property of a built-in tool's schema (its description is left out).
builtinProperty(type) == [type |-> type, description |-> "(built-in)"]

\* builtinTools(): the nine built-in tools, in this order.
builtinTools ==
    LET commandProperties ==
            [k \in {"name", "exec", "args", "description", "async", "timeout"} |->
                builtinProperty(CASE k = "args" -> "object"
                                  [] k = "async" -> "boolean"
                                  [] OTHER -> "string")]
        nameProperty == [k \in {"name"} |-> builtinProperty("string")]
    IN  << Tool(NameHelp, "Get usage guide for instant-mcp.", EmptyMap, {}),
           Tool(NameAddCommand, "Register a new command as an MCP tool.",
                commandProperties, {"name", "exec"}),
           Tool(NameRemoveCommand, "Remove a registered command.", nameProperty,
                {"name"}),
           Tool(NameListCommands, "List all registered commands.", EmptyMap, {}),
           Tool(NameGetCommand, "Get details of a registered command.", nameProperty,
                {"name"}),
           Tool(NameBatchExec, "Execute multiple operations.",
                [k \in {"commands", "atomic"} |->
                    builtinProperty(IF k = "atomic" THEN "boolean" ELSE "array")],
                {"commands"}),
           Tool(NameUpdateCommand, "Update an existing command.", commandProperties,
                {"name"}),
           Tool(NameImportConfig, "Import commands from a file.",
                [k \in {"path", "overwrite"} |->
                    builtinProperty(IF k = "path" THEN "string" ELSE "boolean")],
                {"path"}),
           Tool(NameExportConfig, "Export commands to a file.",
                [k \in {"path"} |-> builtinProperty("string")], {}) >>

\* commandToTool(cmd)
commandToTool(cmd) ==
    Tool(cmd.Name, cmd.Description,
         [a \in DOMAIN cmd.Args |-> [type |-> cmd.Args[a].Type,
                                     description |-> cmd.Args[a].Description]],
         {a \in DOMAIN cmd.Args : cmd.Args[a].Required})

\* handleToolsList that answers from builtinTools() alone.
handleToolsListBuiltins(commands) == { [tools |-> builtinTools] }

\* handleToolsList: the results it can write.  The dynamic tools follow the
\* built-in ones in the order of Registry.List (Go's unspecified map order).
handleToolsList(commands) ==
    { [tools |-> builtinTools
                 \o [j \in 1..Len(order) |-> commandToTool(commands[order[j]])]]
      : order \in rangeOrders(DOMAIN commands) }

\* The result of handleInitialize.
InitializeResult ==
    [protocolVersion |-> "2024-11-05", capabilities |-> "tools",
     serverInfo |-> "name, version"]

(***************************************************************************)
(* Server.Run: the loop over the messages of stdin                          *)
(***************************************************************************)
\* What handleMessage has done when it returns: the registry, the state
\* file, the bodies of the messages it wrote (wr), the error it returned and
\* the steps it took.
Dispatched(commands, savedNow, wr, err, steps) ==
    [commands |-> commands, saved |-> savedNow, wr |-> wr, err |-> err,
     steps |-> steps]

\* handleMessage that writes the method-not-found error whether or not the
\* message has an id.
unknownMethodAlways(commands, savedBefore, msg) ==
    Dispatched(commands, savedBefore, <<WriteError(-32601, "Method not found")>>, Nil,
               <<"respond">>)

\* The default case of handleMessage.
unknownMethod(commands, savedBefore, msg) ==
    IF msg.id.present
    THEN Dispatched(commands, savedBefore, <<WriteError(-32601, "Method not found")>>,
                    Nil, <<"respond">>)
    ELSE Dispatched(commands, savedBefore, <<>>, Nil, <<>>)

\* handleMessage(msg): its outcomes.
handleMessage(commands, savedBefore, msg, w, fs) ==
    CASE msg.method = "initialize" ->
           { IF msg.params.ok
             THEN Dispatched(commands, savedBefore, <<InitializeResult>>, Nil,
                             <<"respond">>)
             ELSE Dispatched(commands, savedBefore, <<>>,
                             Err("invalid_initialize_params", <<>>), <<>>) }
      [] msg.method = "notifications/initialized" ->
           { Dispatched(commands, savedBefore, <<>>, Nil, <<>>) }
      [] msg.method = "tools/list" ->
           { Dispatched(commands, savedBefore, <<r>>, Nil, <<"respond">>)
             : r \in handleToolsList(commands) }
      [] msg.method = "tools/call" ->
           IF ~msg.params.ok
           THEN { Dispatched(commands, savedBefore, <<>>,
                             Err("invalid_tools_call_params", <<>>), <<>>) }
           ELSE { Dispatched(h.commands, h.saved, <<h.resp>>, Nil, h.steps)
                  : h \in handleToolsCall(commands, savedBefore,
                                          ToolsCallParams(msg.params.name,
                                                          msg.params.arguments),
                                          w, fs) }
      [] OTHER -> { unknownMethod(commands, savedBefore, msg) }

\* One iteration of Run after ReadMessage: handleMessage and, when it
\* returns an error, WriteError(msg.ID, -32603, err.Error()).
runHandle(commands, savedBefore, msg, w, fs) ==
    { IF d.err # Nil
      THEN [d EXCEPT !.wr = Append(@, WriteError(-32603, d.err.kind)),
                     !.steps = Append(@, "respond")]
      ELSE d
      : d \in handleMessage(commands, savedBefore, msg, w, fs) }

\* A line of stdin, or its end: kind is "line" (decodes: json.Unmarshal
\* accepts it as a JSONRPCMessage), "eof" or "error" (ReadBytes fails).
StreamItem(kind, decodes, msg) == [kind |-> kind, decodes |-> decodes, msg |-> msg]

\* Transport.ReadMessage(): the message and the error.
ReadMessage(item) ==
    IF item.kind = "eof" THEN [msg |-> NoMessage, err |-> "EOF"]
    ELSE IF item.kind = "error" THEN [msg |-> NoMessage, err |-> "read error"]
    ELSE IF ~item.decodes
    THEN [msg |-> NoMessage, err |-> "failed to parse JSON-RPC message"]
    ELSE [msg |-> item.msg, err |-> ""]

\* Run that logs a line it cannot decode and goes on to the next.
afterReadSkipUndecodable(err) ==
    IF err = "" THEN "Dispatching"
    ELSE IF err = "failed to parse JSON-RPC message" THEN "Idle"
    ELSE "Stopped"

\* Run after ReadMessage: any error ends the loop (return err).
afterRead(err) == IF err = "" THEN "Dispatching" ELSE "Stopped"

\* A loop that would read again while a message is still being handled.
canReadEarly(l) == l.pc \in {"Idle", "Dispatching", "WritingResponse"}

\* Run calls ReadMessage only at the head of its for loop.
canRead(l) == l.pc = "Idle"

\* The names a rolled-back batch had added: the add_command results marked
\* as successes in its response.
addedByBatch(content) ==
    {content.results[j].Name :
        j \in {k \in DOMAIN content.results :
                  /\ content.results[k].Success
                  /\ content.results[k].Operation = "add_command"}}

\* live, gone and goneNew after handleMessage: a successful add_command
\* makes its name live; a successful remove_command makes it gone; a
\* rolled-back batch makes gone the names it had added (goneNew: those among
\* them that the catalog did not hold before the batch); any other call
\* forgets the names it removed from or brought into the catalog.
track(l, msg, before, d) ==
    LET isCall == msg.method = "tools/call" /\ msg.params.ok
        tool == IF isCall THEN msg.params.name ELSE <<>>
        name == IF isCall THEN asString(msg.params.arguments, "name") ELSE <<>>
        isResult == d.err = Nil /\ d.wr # <<>> /\ "isError" \in DOMAIN d.wr[1]
        success == isResult /\ ~d.wr[1].isError
        rolledBack == /\ tool = NameBatchExec
                      /\ isResult
                      /\ d.wr[1].isError
                      /\ "rolled_back" \in DOMAIN d.wr[1].content
        after == DOMAIN d.commands
        new == after \ DOMAIN before
    IN  IF tool = NameAddCommand /\ success
        THEN [live |-> l.live \cup {name}, gone |-> l.gone \ {name},
              goneNew |-> l.goneNew \ {name}]
        ELSE IF tool = NameRemoveCommand /\ success
        THEN [live |-> l.live \ {name}, gone |-> l.gone \cup {name},
              goneNew |-> l.goneNew \cup {name}]
        ELSE IF rolledBack
        THEN [live |-> l.live,
              gone |-> l.gone \cup addedByBatch(d.wr[1].content),
              goneNew |-> l.goneNew
                          \cup (addedByBatch(d.wr[1].content) \ DOMAIN before)]
        ELSE [live |-> l.live \cap after, gone |-> l.gone \ new,
              goneNew |-> l.goneNew \ new]

\* A persist() of the handler logged a failure: SaveState was called and the
\* state file does not hold the registry's Snapshot.
persistFailed(d) ==
    /\ \E j \in DOMAIN d.steps : d.steps[j] = "persist"
    /\ d.saved # RegistrySnapshot(d.commands)

(***************************************************************************)
(* SpecRun: main from LoadState on, Run reading up to MaxMessages messages   *)
(***************************************************************************)
MaxMessages == 3

\* The tools/call params of the messages: add, remove and update of "a", two
\* atomic batches that fail and are rolled back (one after removing and
\* adding "a" again, one after adding "C"), one that succeeds, an import,
\* calls of "a" and of an unknown tool.
RunCalls ==
    LET failing == BatchOp("remove_command", [name |-> JString(NameNope)])
    IN  { ToolsCallParams(NameAddCommand,
                          [name |-> JString(NameA), exec |-> JString(ExecEcho)]),
          ToolsCallParams(NameRemoveCommand, [name |-> JString(NameA)]),
          ToolsCallParams(NameUpdateCommand,
                          [name |-> JString(NameA), exec |-> JString(ExecOther)]),
          ToolsCallParams(NameBatchExec,
                          [commands |->
                             JArray(<<BatchOp("remove_command",
                                              [name |-> JString(NameA)]),
                                      BatchOp("add_command",
                                              [name |-> JString(NameA),
                                               exec |-> JString(ExecEcho)]),
                                      failing>>)]),
          ToolsCallParams(NameBatchExec,
                          [commands |->
                             JArray(<<BatchOp("add_command",
                                              [name |-> JString(NameC),
                                               exec |-> JString(ExecOther)]),
                                      failing>>)]),
          ToolsCallParams(NameBatchExec,
                          [commands |->
                             JArray(<<BatchOp("add_command",
                                              [name |-> JString(NameC),
                                               exec |-> JString(ExecOther)])>>)]),
          ToolsCallParams(NameBatchExec,
                          [commands |-> JArray(<<failing>>), atomic |-> JBool(FALSE)]),
          ToolsCallParams(NameImportConfig, [path |-> JText("import.yaml")]),
          ToolsCallParams(NameA, EmptyMap),
          ToolsCallParams(NameNope, EmptyMap) }

\* The params of a message: whether the handler can decode them and, for
\* tools/call, the name and the arguments.
Params(ok, call) == [ok |-> ok, name |-> call.name, arguments |-> call.arguments]

NoParams == Params(TRUE, ToolsCallParams(<<>>, EmptyMap))

BadParams == Params(FALSE, ToolsCallParams(<<>>, EmptyMap))

\* The messages the client sends as its n-th: requests with the id n and
\* notifications, of every method, with params that decode or do not.
Messages(n) ==
    LET ids == {NoID, [present |-> TRUE, value |-> n]}
    IN  { JSONRPCMessage(id, method, NoParams)
          : id \in ids,
            method \in {"initialize", "notifications/initialized", "tools/list",
                        "resources/list"} }
        \cup { JSONRPCMessage(id, method, BadParams)
               : id \in ids, method \in {"initialize", "tools/call"} }
        \cup { JSONRPCMessage(id, "tools/call", Params(TRUE, call))
               : id \in ids, call \in RunCalls }

\* What the n-th read of stdin can meet.
StreamItems(n) ==
    { StreamItem("eof", FALSE, NoMessage), StreamItem("error", FALSE, NoMessage) }
    \cup (IF n > MaxMessages THEN {}
          ELSE { StreamItem("line", FALSE, NoMessage) }
               \cup { StreamItem("line", TRUE, m) : m \in Messages(n) })

\* What the execution of a dynamic tool meets: a quiet success or a failure
\* with output.
RunWorlds == { QuietWorld, World(TRUE, <<"out">>, <<>>, TRUE, FALSE) }

\* The file import_config reads.
RunFiles == { FileSystem("ok", MapSet(EmptyMap, NameC, leanCommand(NameC)), TRUE) }

\* for { msg, err := s.transport.ReadMessage() ...: Run enters ReadMessage.
RunRead ==
    /\ phase = "run"
    /\ canRead(loop)
    /\ loop' = [loop EXCEPT !.pc = "ReadingMessage"]
    /\ UNCHANGED <<registry, last, callerVars, concVars, phase>>

\* ReadMessage returns: a message to dispatch, or the error Run returns.
RunReadMessage ==
    /\ phase = "run"
    /\ loop.pc = "ReadingMessage"
    /\ \E item \in StreamItems(loop.read + 1) :
         LET r == ReadMessage(item)
         IN  loop' = IF r.err # ""
                     THEN [loop EXCEPT !.pc = afterRead(r.err),
                                       !.err = IF afterRead(r.err) = "Stopped"
                                               THEN r.err ELSE @]
                     ELSE [loop EXCEPT !.pc = afterRead(r.err), !.msg = r.msg,
                                       !.read = @ + 1]
    /\ UNCHANGED <<registry, last, callerVars, concVars, phase>>

\* handleMessage(msg), with everything the handler does before it writes.
RunDispatch ==
    /\ phase = "run"
    /\ loop.pc = "Dispatching"
    /\ \E w \in (IF loop.msg.method = "tools/call"
                    /\ loop.msg.params.name \notin BuiltinNames
                 THEN RunWorlds ELSE {QuietWorld}),
          fs \in (IF loop.msg.params.name = NameImportConfig THEN RunFiles
                  ELSE {NoFiles}) :
         \E d \in runHandle(registry, saved, loop.msg, w, fs) :
            LET t == track(loop, loop.msg, registry, d)
            IN  /\ registry' = d.commands
                /\ saved' = d.saved
                /\ loop' = [loop EXCEPT
                              !.pc = IF d.wr = <<>> THEN "Idle" ELSE "WritingResponse",
                              !.msg = IF d.wr = <<>> THEN NoMessage ELSE @,
                              !.wr = d.wr,
                              !.steps = d.steps,
                              !.live = t.live, !.gone = t.gone,
                              !.goneNew = t.goneNew,
                              !.saveFailed = @ \/ persistFailed(d)]
    /\ UNCHANGED <<last, heap, snap, concVars, phase>>

\* WriteMessage: the response goes to stdout, and Run is back at the head of
\* its loop.
RunWriteMessage ==
    /\ phase = "run"
    /\ loop.pc = "WritingResponse"
    /\ loop' = [loop EXCEPT
                  !.out = Append(@, [for |-> loop.read, id |-> loop.msg.id]),
                  !.wr = Tail(@),
                  !.pc = IF Tail(loop.wr) = <<>> THEN "Idle" ELSE "WritingResponse",
                  !.msg = IF Tail(loop.wr) = <<>> THEN NoMessage ELSE @,
                  !.steps = IF Tail(loop.wr) = <<>> THEN <<>> ELSE @]
    /\ UNCHANGED <<registry, last, callerVars, concVars, phase>>

NextRun ==
    \/ ServerLoadState
    \/ RunRead
    \/ RunReadMessage
    \/ RunDispatch
    \/ RunWriteMessage

SpecRun == Init /\ [][NextRun]_vars

(***************************************************************************)
(* Claims about the registry (SpecRegistry)                                 *)
(***************************************************************************)
\* The error classes the specification calls validation errors.
ValidationError(e) ==
    e.kind \in {"name_required", "name_invalid", "exec_required",
                "arg_type_missing", "arg_type_invalid", "timeout_invalid"}

\* A name of the shape ^[A-Za-z][A-Za-z0-9_]*$.
NameHasShape(n) ==
    /\ Len(n) >= 1
    /\ n[1] \in Letters
    /\ \A i \in 2..Len(n) : n[i] \in Letters \cup Digits \cup {"_"}

\* A timeout of the shape <integer><s|m|h>.
TimeoutHasShape(t) ==
    /\ Len(t) >= 2
    /\ \A i \in 1..(Len(t) - 1) : t[i] \in Digits
    /\ t[Len(t)] \in {"s", "m", "h"}

\* A definition that breaks one of the definition invariants.
ViolatesInvariants(cmd) ==
    \/ ~NameHasShape(cmd.Name)
    \/ cmd.Exec = <<>>
    \/ \E a \in DOMAIN cmd.Args : cmd.Args[a].Type \notin {"string", "number", "boolean"}
    \/ cmd.Timeout # <<>> /\ ~TimeoutHasShape(cmd.Timeout)

\* C4: Add of a definition with a malformed (or empty) name, an empty
\* executablePath, a parameter of a type other than string/number/boolean, or
\* a non-empty malformed timeout fails with a validation error and leaves the
\* catalog exactly as it was.
C4_AddRejectsInvalid ==
    (last.op = "Add" /\ ViolatesInvariants(last.cmd))
        => (ValidationError(last.err) /\ registry = last.pre)

\* C4 witness: an Add whose timeout is "5ss", under a name the non-empty
\* catalog already holds, has been rejected.
C4_Witness ==
    /\ last.op = "Add"
    /\ last.cmd.Timeout = <<"5", "s", "s">>
    /\ last.cmd.Name \in DOMAIN last.pre
    /\ ValidationError(last.err)

\* C5 as stated: every Add of an already-present name fails with the conflict
\* error and leaves the catalog (its size, the definition under the name)
\* unchanged.
C5_Original ==
    (last.op = "Add" /\ last.name \in DOMAIN last.pre)
        => /\ last.err.kind = "already_exists"
           /\ RegistryLen(registry) = RegistryLen(last.pre)
           /\ registry[last.name] = last.pre[last.name]

\* C5 amended: Add of an already-present name always fails and leaves the
\* catalog unchanged; the failure is the conflict error when the definition
\* passes validation and the validation error when it does not.
C5_AddDuplicate ==
    (last.op = "Add" /\ last.name \in DOMAIN last.pre)
        => /\ registry = last.pre
           /\ RegistryLen(registry) = RegistryLen(last.pre)
           /\ registry[last.name] = last.pre[last.name]
           /\ IF ViolatesInvariants(last.cmd)
              THEN ValidationError(last.err)
              ELSE last.err.kind = "already_exists"

\* C5 witness: a valid definition that differs from the stored one was added
\* under a present name and refused as a conflict.
C5_Witness ==
    /\ last.op = "Add"
    /\ last.name \in DOMAIN last.pre
    /\ last.cmd # last.pre[last.name]
    /\ ~ViolatesInvariants(last.cmd)
    /\ last.err.kind = "already_exists"

\* C6: Remove(name) of an absent name fails with NotFound and changes
\* nothing; of a present name it succeeds, deletes exactly that entry, keeps
\* every other entry, and a following Get(name) fails with NotFound.
C6_Remove ==
    last.op = "Remove"
        => IF last.name \notin DOMAIN last.pre
           THEN last.err.kind = "not_found" /\ registry = last.pre
           ELSE /\ last.err = Nil
                /\ DOMAIN registry = (DOMAIN last.pre) \ {last.name}
                /\ \A n \in DOMAIN registry : registry[n] = last.pre[n]
                /\ RegistryGet(registry, last.name).err.kind = "not_found"

\* C6 witness: a present name was removed from a catalog of two or more.
C6_Witness ==
    /\ last.op = "Remove"
    /\ last.name \in DOMAIN last.pre
    /\ RegistryLen(last.pre) >= 2
    /\ last.err = Nil

\* C7 as stated: Update fails with NotFound whenever oldName is absent, with
\* a validation error whenever newDef violates an invariant, and leaves the
\* catalog unchanged in both cases.
C7_Original ==
    last.op = "Update"
        => /\ last.name \notin DOMAIN last.pre
                => (last.err.kind = "not_found" /\ registry = last.pre)
           /\ ViolatesInvariants(last.cmd)
                => (ValidationError(last.err) /\ registry = last.pre)

\* C7 amended: Update fails with a validation error whenever newDef violates
\* an invariant, and with NotFound when newDef is valid and oldName is absent
\* (validation comes first); in both cases the catalog is unchanged.
C7_UpdateFails ==
    last.op = "Update"
        => /\ (last.name \notin DOMAIN last.pre /\ ~ViolatesInvariants(last.cmd))
                => (last.err.kind = "not_found" /\ registry = last.pre)
           /\ ViolatesInvariants(last.cmd)
                => (ValidationError(last.err) /\ registry = last.pre)

\* C7 witness: an invalid newDef was refused for a present oldName, whose
\* entry is still the previous definition.
C7_Witness ==
    /\ last.op = "Update"
    /\ last.name \in DOMAIN last.pre
    /\ ViolatesInvariants(last.cmd)
    /\ ValidationError(last.err)
    /\ registry[last.name] = last.pre[last.name]

\* C8: after a successful Update(oldName, newDef) with newDef.name # oldName,
\* Get(oldName) fails with NotFound and Get(newDef.name) returns newDef; an
\* entry already stored under newDef.name is overwritten, the catalog then
\* being one entry smaller (and of the same size otherwise); the other
\* entries are as before.
C8_UpdateRename ==
    (last.op = "Update" /\ last.err = Nil /\ last.cmd.Name # last.name)
        => /\ RegistryGet(registry, last.name).err.kind = "not_found"
           /\ RegistryGet(registry, last.cmd.Name) = [cmd |-> last.cmd, err |-> Nil]
           /\ RegistryLen(registry) =
                IF last.cmd.Name \in DOMAIN last.pre
                THEN RegistryLen(last.pre) - 1
                ELSE RegistryLen(last.pre)
           /\ \A n \in (DOMAIN last.pre) \ {last.name, last.cmd.Name} :
                n \in DOMAIN registry /\ registry[n] = last.pre[n]
           /\ DOMAIN registry \subseteq (DOMAIN last.pre) \cup {last.cmd.Name}

\* C8 witness: a rename onto a name that held a different third entry
\* succeeded.
C8_Witness ==
    /\ last.op = "Update"
    /\ last.err = Nil
    /\ last.cmd.Name # last.name
    /\ last.cmd.Name \in DOMAIN last.pre
    /\ last.pre[last.cmd.Name] # last.cmd
    /\ RegistryLen(last.pre) = 3

\* C9: Load of a catalog's Snapshot into a fresh registry gives exactly the
\* same names with the same definition under each, and Load of a catalog's
\* own Snapshot leaves the catalog unchanged.
C9_SnapshotLoadRoundTrip ==
    /\ last.op = "SnapshotLoadFresh"
         => /\ DOMAIN last.ret = DOMAIN last.pre
            /\ \A n \in DOMAIN last.pre : last.ret[n] = last.pre[n]
            /\ registry = last.pre
    /\ last.op = "SnapshotLoadSelf"
         => /\ DOMAIN registry = DOMAIN last.pre
            /\ \A n \in DOMAIN last.pre : registry[n] = last.pre[n]

\* C9 witness: a catalog of three entries went through the round trip into a
\* fresh registry.
C9_Witness ==
    /\ last.op = "SnapshotLoadFresh"
    /\ RegistryLen(last.pre) = 3
    /\ RegistryLen(last.ret) = 3

\* C17: in every reachable state of the catalog every entry is stored under
\* the key equal to its definition's name, and every stored definition
\* satisfies the definition invariants (name pattern, non-empty executable,
\* parameter types in the allowed set, timeout absent or well-formed).
C17_CatalogWellFormed ==
    \A n \in DOMAIN registry :
        /\ registry[n].Name = n
        /\ ~ViolatesInvariants(registry[n])

(***************************************************************************)
(* Claims about concurrent callers of the registry (SpecConc)               *)
(***************************************************************************)
\* Goroutine p holds r.mu, for writing or for reading.
Holding(p) == goroutines[p].pc \in {"locked", "checked"}

Writing(p) == Holding(p) /\ Head(goroutines[p].todo).op \in WriteOps

Reading(p) == Holding(p) /\ Head(goroutines[p].todo).op \in ReadOps

\* What the call c does when nothing else runs: the outcomes of the method
\* on a registry holding commands.
Sequential(c, commands) ==
    IF c.op = "Add" THEN RegistryAdd(commands, c.cmd)
    ELSE IF c.op = "Remove" THEN {RegistryRemove(commands, c.name)}
    ELSE IF c.op = "Update" THEN RegistryUpdate(commands, c.name, c.cmd)
    ELSE IF c.op = "Load" THEN {Outcome(RegistryLoad(commands, c.commands), Nil)}
    ELSE IF c.op = "Get" THEN {Outcome(commands, RegistryGet(commands, c.name).err)}
    ELSE {Outcome(commands, Nil)}

\* The round is over: every goroutine has finished its job.
AllDone ==
    /\ goroutines # <<>>
    /\ \A p \in DOMAIN goroutines : goroutines[p].pc = "done"

\* C14: no two goroutines are inside a critical section of the registry at
\* once unless both are readers (a writer excludes writers and readers);
\* between a writer's check and its write nobody else changes the catalog;
\* and every call that took the lock leaves exactly what the method does to
\* the catalog it read, with the error the method returns for that catalog.
C14_CatalogLocking ==
    /\ \A p, q \in DOMAIN goroutines :
         (p # q /\ Writing(p)) => ~Holding(q)
    /\ \A p \in DOMAIN goroutines :
         LET g == goroutines[p]
         IN  /\ g.pc = "checked" => registry = g.seen
             /\ g.log # <<>> =>
                  LET e == g.log[Len(g.log)]
                  IN  e.locked => Outcome(e.after, e.err) \in Sequential(e.call, e.seen)

\* C14 witness: two readers hold the lock at the same time.
C14_Witness ==
    \E p, q \in DOMAIN goroutines :
        /\ p # q
        /\ Reading(p)
        /\ Reading(q)
        /\ mu.readers = {p, q}

\* The definition goroutine p adds, in a round of single-Add jobs.
Added(p) == Head(goroutines[p].log).call.cmd

\* Every goroutine of the finished round made one Add of a valid definition.
AllValidAdds ==
    /\ AllDone
    /\ \A p \in DOMAIN goroutines :
         /\ goroutines[p].kind = "add"
         /\ validateCommand(Added(p)) = {Nil}

\* C15: after a round of concurrent Adds of valid definitions, for every name
\* that was absent before the round exactly one of the Adds of that name has
\* succeeded, the others have failed with the conflict error, and the catalog
\* holds the winner's definition; so Adds of pairwise distinct absent names
\* all succeed and the catalog ends with the entries it had and exactly one
\* more per Add.
C15_ConcurrentAdds ==
    AllValidAdds
        => LET P == DOMAIN goroutines
               names == {Added(p).Name : p \in P}
               absent == names \ DOMAIN last.pre
           IN  /\ \A n \in absent :
                    LET adders == {p \in P : Added(p).Name = n}
                        winners == {p \in adders : Head(goroutines[p].log).err = Nil}
                    IN  /\ Cardinality(winners) = 1
                        /\ \A p \in adders \ winners :
                             Head(goroutines[p].log).err = Err("already_exists", n)
                        /\ \E p \in winners : registry[n] = Added(p)
               /\ (absent = names /\ Cardinality(names) = Cardinality(P))
                    => /\ \A p \in P : Head(goroutines[p].log).err = Nil
                       /\ DOMAIN registry = DOMAIN last.pre \cup names
                       /\ RegistryLen(registry) = RegistryLen(last.pre) + Cardinality(P)
                       /\ \A p \in P : registry[Added(p).Name] = Added(p)
                       /\ \A n \in DOMAIN last.pre : registry[n] = last.pre[n]

\* C15 witness: two goroutines have added two different definitions under
\* the same absent name; one has failed with the conflict error.
C15_Witness ==
    /\ AllValidAdds
    /\ \E p, q \in DOMAIN goroutines :
         /\ p # q
         /\ Added(p).Name = Added(q).Name
         /\ Added(p) # Added(q)
         /\ Added(p).Name \notin DOMAIN last.pre
         /\ Head(goroutines[p].log).err = Nil
         /\ Head(goroutines[q].log).err # Nil

\* C15 second witness: every goroutine of the round has added another absent
\* name, to a catalog that was not empty.
C15_WitnessDistinct ==
    /\ AllValidAdds
    /\ last.pre # EmptyMap
    /\ Cardinality(DOMAIN goroutines) >= 2
    /\ Cardinality({Added(p).Name : p \in DOMAIN goroutines})
         = Cardinality(DOMAIN goroutines)
    /\ \A p \in DOMAIN goroutines : Head(goroutines[p].log).err = Nil

\* Goroutine p ran an atomic batch and rolled it back.
RolledBack(p) ==
    /\ goroutines[p].kind = "batch"
    /\ \E i \in 1..Len(goroutines[p].log) : goroutines[p].log[i].call.op = "Load"

\* C16: every catalog state a concurrent reader is given is a committed one:
\* in a round of one atomic batch that is rolled back and otherwise only
\* readers, the only committed state is the catalog before the round, so
\* that is what every read has returned.
C16_NoPartialStateVisible ==
    (AllDone /\ \E b \in DOMAIN goroutines :
                   /\ RolledBack(b)
                   /\ \A p \in DOMAIN goroutines \ {b} : goroutines[p].kind = "read")
        => \A p \in DOMAIN goroutines :
             goroutines[p].kind = "read"
                => \A i \in 1..Len(goroutines[p].log) :
                      goroutines[p].log[i].seen = last.pre

(***************************************************************************)
(* Claims about batch_exec (SpecBatch)                                      *)
(***************************************************************************)
\* The call just handled is a batch_exec whose "commands" parsed into a
\* non-empty list of operations.
BatchRan ==
    /\ last.op = "batch_exec"
    /\ isA(last.arguments, "commands", "array")
    /\ Len(last.arguments["commands"].a) > 0
    /\ firstBadElement(last.arguments["commands"].a, 1) = 0

\* The operations of the call just handled.
BatchOpsRun ==
    [i \in 1..Len(last.arguments["commands"].a) |->
        parseBatchOp(last.arguments["commands"].a[i])]

\* The reference run of the operations from position i on, on a catalog
\* holding commands: for each operation the catalog before it, whether it
\* fails there, and the catalog after it (unchanged when it fails).
RECURSIVE RefRun(_, _, _)
RefRun(commands, ops, i) ==
    IF i > Len(ops) THEN <<>>
    ELSE LET outs == execBatchOp(commands, ops[i])
             after == (CHOOSE o \in outs : TRUE).commands
         IN  <<[before |-> commands,
                fails |-> \E o \in outs : o.err # Nil,
                after |-> after]>>
             \o RefRun(after, ops, i + 1)

\* The 0-based index of the first failing operation of a reference run; -1
\* when none fails.
FirstFailure(run) ==
    IF \E i \in 1..Len(run) : run[i].fails
    THEN (CHOOSE i \in 1..Len(run) :
            run[i].fails /\ \A j \in 1..(i - 1) : ~run[j].fails) - 1
    ELSE -1

\* The catalog a reference run ends with, started from commands.
FinalCatalog(commands, run) ==
    IF Len(run) = 0 THEN commands ELSE run[Len(run)].after

\* C1: an atomic batch whose first failing operation is k (0-indexed) leaves
\* the catalog equal to the catalog before the batch and answers with
\* failed_at = k and rolled_back = true.
C1_AtomicRollback ==
    (BatchRan /\ atomicFlag(last.arguments))
        => LET k == FirstFailure(RefRun(last.pre, BatchOpsRun, 1))
           IN  k >= 0
                 => /\ registry = last.pre
                    /\ last.resp.isError
                    /\ last.resp.content.success = FALSE
                    /\ last.resp.content.rolled_back = TRUE
                    /\ last.resp.content.failed_at = k

\* C1 witness: an atomic batch of three operations on a non-empty catalog
\* failed at its third operation after two that had changed the catalog.
C1_Witness ==
    /\ BatchRan
    /\ atomicFlag(last.arguments)
    /\ Len(BatchOpsRun) = 3
    /\ last.pre # EmptyMap
    /\ LET run == RefRun(last.pre, BatchOpsRun, 1)
       IN  /\ FirstFailure(run) = 2
           /\ run[1].after # last.pre
           /\ run[2].after # run[1].after
    /\ registry = last.pre

\* C2: a partial batch attempts each of its N operations in order whatever
\* failed before: the response carries N results, result i for operation i,
\* each flagged with whether that operation succeeded on the catalog left by
\* the operations before it; the final catalog is the result of applying in
\* order exactly the operations that succeeded; nothing is rolled back.
C2_PartialAppliesAll ==
    (BatchRan /\ ~atomicFlag(last.arguments))
        => LET ops == BatchOpsRun
               run == RefRun(last.pre, ops, 1)
               results == last.resp.content.results
           IN  /\ Len(results) = Len(ops)
               /\ \A i \in 1..Len(ops) :
                    /\ results[i].Index = i - 1
                    /\ results[i].Operation = ops[i].Operation
                    /\ results[i].Success = ~run[i].fails
               /\ registry = FinalCatalog(last.pre, run)
               /\ "rolled_back" \notin DOMAIN last.resp.content

\* C2 witness: a partial batch of three operations whose first failed and
\* whose second and third succeeded and changed the catalog.
C2_Witness ==
    /\ BatchRan
    /\ ~atomicFlag(last.arguments)
    /\ Len(BatchOpsRun) = 3
    /\ ~last.resp.content.results[1].Success
    /\ last.resp.content.results[2].Success
    /\ last.resp.content.results[3].Success
    /\ LET run == RefRun(last.pre, BatchOpsRun, 1)
       IN  /\ run[2].after # last.pre
           /\ run[3].after # run[2].after
           /\ registry = run[3].after

\* C3 as stated: whenever atomic mode would fail at operation k, the partial
\* run of the same N operations reports N-1 successes.
C3_Original ==
    (BatchRan /\ ~atomicFlag(last.arguments)
              /\ FirstFailure(RefRun(last.pre, BatchOpsRun, 1)) >= 0)
        => last.resp.content.summary = <<Len(BatchOpsRun) - 1, Len(BatchOpsRun)>>

\* C3 amended: when atomic mode would fail at operation k, the partial run of
\* the same N operations applies operations 0..k-1 as atomic mode does, fails
\* operation k, and attempts every later operation on the catalog left by the
\* ones before it; the reported success count is N minus the number of
\* operations that failed, which is N-1 exactly when k is the only one.
C3_PartialSuccessCount ==
    (BatchRan /\ ~atomicFlag(last.arguments))
        => LET run == RefRun(last.pre, BatchOpsRun, 1)
               n == Len(run)
               k == FirstFailure(run)
               results == last.resp.content.results
               failed == {i \in 1..n : run[i].fails}
           IN  k >= 0
                 => /\ Len(results) = n
                    /\ \A i \in 1..k : results[i].Success
                    /\ ~results[k + 1].Success
                    /\ \A i \in (k + 2)..n : results[i].Success = (i \notin failed)
                    /\ last.resp.content.summary = <<n - Cardinality(failed), n>>
                    /\ (last.resp.content.summary[1] = n - 1) = (failed = {k + 1})
                    /\ registry = FinalCatalog(last.pre, run)

\* C3 witness: three operations whose second alone fails, run in partial
\* mode on an empty catalog: 2/3 succeeded and the catalog holds two entries.
C3_Witness ==
    /\ BatchRan
    /\ ~atomicFlag(last.arguments)
    /\ last.pre = EmptyMap
    /\ Len(BatchOpsRun) = 3
    /\ FirstFailure(RefRun(last.pre, BatchOpsRun, 1)) = 1
    /\ last.resp.content.summary = <<2, 3>>
    /\ RegistryLen(registry) = 2

\* The steps of a handler that made n execBatchOp calls and then the steps
\* tail.
StepsAre(n, tail) ==
    /\ Len(last.steps) = n + Len(tail)
    /\ \A j \in 1..n : last.steps[j] = "exec"
    /\ \A j \in 1..Len(tail) : last.steps[n + j] = tail[j]

\* C11: an atomic batch that fails makes no persistence call (and leaves the
\* state file alone); an atomic batch whose operations all succeed makes
\* exactly one, after the last operation has been applied and before the
\* response is written, so that a save that goes through stores the final
\* catalog.
C11_AtomicPersistence ==
    (BatchRan /\ atomicFlag(last.arguments))
        => LET n == Len(BatchOpsRun)
               k == FirstFailure(RefRun(last.pre, BatchOpsRun, 1))
           IN  IF k >= 0
               THEN /\ last.persists = 0
                    /\ \A j \in DOMAIN last.steps : last.steps[j] # "persist"
                    /\ saved = last.preSaved
               ELSE /\ last.persists = 1
                    /\ StepsAre(n, <<"persist", "respond">>)
                    /\ saved \in {RegistrySnapshot(registry), last.preSaved}

\* C11 witness: an atomic batch of three operations that all succeeded on a
\* non-empty catalog has persisted once and the state file holds the new
\* catalog, which differs from the one before the batch.
C11_Witness ==
    /\ BatchRan
    /\ atomicFlag(last.arguments)
    /\ Len(BatchOpsRun) = 3
    /\ last.pre # EmptyMap
    /\ ~last.resp.isError
    /\ last.persists = 1
    /\ saved = RegistrySnapshot(registry)
    /\ saved # last.preSaved
    /\ registry # last.pre

\* C12: a partial batch calls persist exactly once when at least one of its
\* operations succeeded and not at all when none did; its result is a success
\* exactly when all N operations succeeded, and otherwise an error result
\* that still carries all N per-operation results.
C12_PartialOutcome ==
    (BatchRan /\ ~atomicFlag(last.arguments))
        => LET run == RefRun(last.pre, BatchOpsRun, 1)
               n == Len(run)
               succeeded == {i \in 1..n : ~run[i].fails}
           IN  /\ last.persists = (IF succeeded # {} THEN 1 ELSE 0)
               /\ succeeded = {} => saved = last.preSaved
               /\ StepsAre(n, IF succeeded # {} THEN <<"persist", "respond">>
                                               ELSE <<"respond">>)
               /\ last.resp.isError = (succeeded # 1..n)
               /\ last.resp.content.success = (succeeded = 1..n)
               /\ Len(last.resp.content.results) = n

\* C12 witness: a partial batch of three operations of which exactly one
\* succeeded: an error result with three results, persisted once.
C12_Witness ==
    /\ BatchRan
    /\ ~atomicFlag(last.arguments)
    /\ Len(BatchOpsRun) = 3
    /\ last.resp.isError
    /\ last.resp.content.summary = <<1, 3>>
    /\ Len(last.resp.content.results) = 3
    /\ last.persists = 1
    /\ saved = RegistrySnapshot(registry)
    /\ saved # last.preSaved

\* The operation kinds execBatchOp knows.
KnownKinds == {"add_command", "remove_command", "update_command"}

\* The subsequence of ops from position i on whose kind is known.
RECURSIVE KnownOnly(_, _)
KnownOnly(ops, i) ==
    IF i > Len(ops) THEN <<>>
    ELSE IF ops[i].Operation \in KnownKinds
         THEN <<ops[i]>> \o KnownOnly(ops, i + 1)
         ELSE KnownOnly(ops, i + 1)

\* C13: an operation of a kind other than add_command, remove_command and
\* update_command fails, alone, with the unknown-operation error and changes
\* nothing: in partial mode its result is a failure with that error and the
\* final catalog is the one the batch without it produces; in atomic mode,
\* when it is the first operation to fail, the batch is rolled back with
\* failed_at its index and that error.
C13_UnknownOperation ==
    BatchRan
        => LET ops == BatchOpsRun
               n == Len(ops)
               unknown == {i \in 1..n : ops[i].Operation \notin KnownKinds}
               run == RefRun(last.pre, ops, 1)
               k == FirstFailure(run)
               results == last.resp.content.results
           IN  /\ \A i \in unknown :
                    /\ run[i].fails
                    /\ run[i].after = run[i].before
               /\ ~atomicFlag(last.arguments)
                    => /\ \A i \in unknown :
                            /\ ~results[i].Success
                            /\ results[i].Error = Err("unknown_operation",
                                                      ops[i].Operation)
                       /\ registry = FinalCatalog(last.pre,
                                        RefRun(last.pre, KnownOnly(ops, 1), 1))
               /\ (atomicFlag(last.arguments) /\ k + 1 \in unknown)
                    => /\ registry = last.pre
                       /\ last.resp.isError
                       /\ last.resp.content.rolled_back = TRUE
                       /\ last.resp.content.failed_at = k
                       /\ last.resp.content.error = Err("unknown_operation",
                                                        ops[k + 1].Operation)

\* C13 witness: a partial batch [add, unknown kind, add] on an empty catalog
\* ended with both adds applied and the unknown operation failed.
C13_Witness ==
    /\ BatchRan
    /\ ~atomicFlag(last.arguments)
    /\ last.pre = EmptyMap
    /\ Len(BatchOpsRun) = 3
    /\ BatchOpsRun[2].Operation \notin KnownKinds
    /\ last.resp.content.results[1].Success
    /\ ~last.resp.content.results[2].Success
    /\ last.resp.content.results[3].Success
    /\ RegistryLen(registry) = 2

\* C13 second witness: an atomic batch rolled back by an unknown operation
\* in second position, after a first operation that had changed the catalog.
C13_WitnessAtomic ==
    /\ BatchRan
    /\ atomicFlag(last.arguments)
    /\ Len(BatchOpsRun) >= 2
    /\ BatchOpsRun[2].Operation \notin KnownKinds
    /\ last.resp.isError
    /\ last.resp.content.failed_at = 1
    /\ registry = last.pre

(***************************************************************************)
(* Claims about tools/call (SpecServer)                                     *)
(***************************************************************************)
\* The step just taken is a tools/call.
ToolCalled == last.op = "tools/call"

\* The steps the handler of the last tools/call went through.
StepsTaken == {last.steps[j] : j \in DOMAIN last.steps}

\* The response is a JSON-RPC error object.
IsProtocolError(resp) == "error" \in DOMAIN resp

\* C18: a tools/call whose name is one of the nine built-in names is handled
\* by that built-in handler and the Executor is never invoked, even when the
\* catalog holds an entry of the same name.
C18_BuiltinShadows ==
    (ToolCalled /\ last.params.name \in BuiltinNames)
        => /\ "execute" \notin StepsTaken
           /\ "spawn" \notin StepsTaken
           /\ \E h \in builtinHandler(last.params.name, last.pre, last.preSaved,
                                      last.params.arguments, last.files) :
                 /\ registry = h.commands
                 /\ saved = h.saved
                 /\ last.resp = h.resp
                 /\ last.steps = h.steps

\* A built-in name is called while the catalog holds an entry of that name.
C18_Witness ==
    /\ ToolCalled
    /\ last.params.name \in BuiltinNames
    /\ last.params.name \in DOMAIN last.pre

\* add_command has just put an entry with a built-in's name in the catalog.
C18_WitnessAdded ==
    /\ ToolCalled
    /\ last.params.name = NameAddCommand
    /\ NameHelp \in DOMAIN registry
    /\ NameHelp \notin DOMAIN last.pre

\* C19: a tools/call whose name is neither a built-in nor in the catalog is
\* answered with a JSON-RPC error of code -32602; no process is spawned and
\* the catalog and the persisted state are unchanged.
C19_CatalogMiss ==
    (/\ ToolCalled
     /\ last.params.name \notin BuiltinNames
     /\ last.params.name \notin DOMAIN last.pre)
        => /\ IsProtocolError(last.resp)
           /\ last.resp.error.code = -32602
           /\ "execute" \notin StepsTaken
           /\ "spawn" \notin StepsTaken
           /\ registry = last.pre
           /\ saved = last.preSaved

\* An unknown name is called on a catalog that holds commands.
C19_Witness ==
    /\ ToolCalled
    /\ last.params.name = NameNope
    /\ last.pre # EmptyMap
    /\ IsProtocolError(last.resp)

\* C20: when the Executor fails for a catalog entry, the answer is a result
\* flagged isError holding the captured output followed by the error text,
\* never a JSON-RPC error object; when it succeeds with empty output the
\* result text is "(no output)".
C20_ExecutionFailureIsResult ==
    (/\ ToolCalled
     /\ last.params.name \notin BuiltinNames
     /\ last.params.name \in DOMAIN last.pre)
        => \E x \in Execute(last.pre[last.params.name], last.params.arguments,
                            last.world) :
              /\ ~IsProtocolError(last.resp)
              /\ x.err.kind # "nil"
                   => /\ last.resp.isError
                      /\ Len(last.resp.content.text) >= Len(x.output)
                      /\ SubSeq(last.resp.content.text, 1, Len(x.output)) = x.output
                      /\ last.resp.content.err.kind = x.err.kind
              /\ (x.err.kind = "nil" /\ x.output = <<>>)
                   => /\ ~last.resp.isError
                      /\ last.resp.content.text = <<"(no output)">>
                      /\ last.resp.content.err.kind = "nil"

\* The error kinds an execution of the last call ended with.
FailedWith(kind) ==
    /\ ToolCalled
    /\ ~IsProtocolError(last.resp)
    /\ last.resp.isError
    /\ "execute" \in StepsTaken
    /\ last.resp.content.err.kind = kind

\* A process ran, wrote output and failed.
C20_Witness ==
    /\ FailedWith("command_failed")
    /\ last.world.stdout # <<>>
    /\ last.resp.content.text # <<>>

\* A required argument was missing.
C20_WitnessMissingArgument == FailedWith("missing_required_argument")

\* The executable could not be resolved.
C20_WitnessUnresolvable == FailedWith("executable_not_found")

\* The deadline passed.
C20_WitnessTimeout == FailedWith("timed_out")

\* A process ran, succeeded and wrote nothing.
C20_WitnessNoOutput ==
    /\ ToolCalled
    /\ "spawn" \in StepsTaken
    /\ ~IsProtocolError(last.resp)
    /\ ~last.resp.isError
    /\ last.resp.content.text = <<"(no output)">>

(***************************************************************************)
(* Claims about the Executor (SpecExecute)                                  *)
(***************************************************************************)
\* The step just taken is a call of Execute.
Ran == last.op = "Execute"

\* The required parameters of the definition just executed that the
\* arguments lack.
Absent ==
    {a \in DOMAIN last.cmd.Args :
        last.cmd.Args[a].Required /\ a \notin DOMAIN last.args}

\* C25: if some parameter marked required is absent from the arguments,
\* Execute fails with a missing-argument error naming one of them, with
\* empty output and before any timeout parsing, executable resolution or
\* process spawn; if none is absent this check never fails.
C25_MissingRequiredArgument ==
    Ran => /\ Absent # {}
                => /\ last.err.kind = "missing_required_argument"
                   /\ last.err.about \in Absent
                   /\ last.output = <<>>
                   /\ ~last.spawned
           /\ Absent = {} => last.err.kind # "missing_required_argument"

\* A required argument is missing from a call whose timeout does not parse
\* and whose executable is not found.
C25_Witness ==
    /\ Ran
    /\ Absent # {}
    /\ last.cmd.Timeout = <<"5", "x">>
    /\ last.cmd.Exec = ExecOther
    /\ ~last.world.onPath
    /\ last.err.kind = "missing_required_argument"

\* Only an optional parameter is absent, and Execute goes on.
C25_WitnessOptional ==
    /\ Ran
    /\ Absent = {}
    /\ "n" \in DOMAIN last.cmd.Args
    /\ "n" \notin DOMAIN last.args
    /\ last.spawned

\* The deadline the specification gives the definition just executed: its
\* timeout when present and well-formed, else 120 seconds.
EffectiveTimeout ==
    IF last.cmd.Timeout # <<>> /\ TimeoutHasShape(last.cmd.Timeout)
    THEN [num |-> atoiFrom(SubSeq(last.cmd.Timeout, 1, Len(last.cmd.Timeout) - 1), 1, 0),
          unit |-> last.cmd.Timeout[Len(last.cmd.Timeout)]]
    ELSE [num |-> 120, unit |-> "s"]

\* C26: the subprocess runs with a deadline equal to the definition's timeout
\* when that is present and well-formed and with 120 seconds in every other
\* case; a timeout string that catalog validation accepts resolves to a
\* deadline and never makes Execute fail.
C26_EffectiveTimeout ==
    (Ran /\ Absent = {})
        => /\ last.err.kind # "invalid_timeout"
           /\ last.timeout = EffectiveTimeout
           /\ (last.err.kind = "timed_out" /\ ~last.spawned) => last.timeout.num = 0

\* What the process wrote: stdout, then a labelled stderr section when
\* stderr is not empty.
Captured ==
    IF last.world.stderr = <<>> THEN last.world.stdout
    ELSE IF last.world.stdout = <<>> THEN <<"stderr: ">> \o last.world.stderr
    ELSE last.world.stdout \o <<"\n", "stderr: ">> \o last.world.stderr

\* C27: once the subprocess run returns, the outcome is Timeout naming the
\* configured timeout string if the deadline was exceeded, whatever the exit
\* status; otherwise ExecutionFailed if the process exited non-zero or could
\* not be spawned; otherwise success; in all three cases the captured output
\* is returned alongside.
C27_OutcomeClassification ==
    (Ran /\ last.spawned)
        => /\ last.output = Captured
           /\ last.world.deadlineExceeded
                => /\ last.err.kind = "timed_out"
                   /\ last.err.about = last.cmd.Timeout
           /\ (~last.world.deadlineExceeded /\ last.world.runErr)
                => last.err.kind = "command_failed"
           /\ (~last.world.deadlineExceeded /\ ~last.world.runErr)
                => last.err.kind = "nil"

\* The deadline passed and the process also failed, with output on both
\* streams.
C27_Witness ==
    /\ Ran
    /\ last.spawned
    /\ last.world.deadlineExceeded
    /\ last.world.runErr
    /\ last.world.stdout # <<>>
    /\ last.world.stderr # <<>>
    /\ last.cmd.Timeout = <<"1", "s">>
    /\ last.err.kind = "timed_out"

\* The process failed within its deadline.
C27_WitnessFailed ==
    /\ Ran
    /\ last.spawned
    /\ last.err.kind = "command_failed"
    /\ last.output # <<>>

\* The process succeeded.
C27_WitnessSuccess ==
    /\ Ran
    /\ last.spawned
    /\ last.err.kind = "nil"
    /\ last.world.stderr # <<>>

\* The supplied arguments the definition declares.
Passed == {a \in DOMAIN last.args : a \in DOMAIN last.cmd.Args}

\* C28: the argument vector holds exactly one element for each supplied
\* argument whose name the definition declares, none for a supplied argument
\* it does not declare, and none for a declared parameter that is not
\* supplied.
C28_UndeclaredArgumentsDropped ==
    (Ran /\ Absent = {})
        => /\ Len(last.argv) = Cardinality(Passed)
           /\ \A a \in Passed :
                 \E j \in DOMAIN last.argv : last.argv[j] = argToString(last.args[a])
           /\ \A j \in DOMAIN last.argv :
                 \E a \in Passed : last.argv[j] = argToString(last.args[a])

\* Two declared arguments and an undeclared one are supplied.
C28_Witness ==
    /\ Ran
    /\ Absent = {}
    /\ Cardinality(Passed) = 2
    /\ "extra" \in DOMAIN last.args
    /\ Len(last.argv) = 2

\* A declared optional parameter is not supplied.
C28_WitnessUnsupplied ==
    /\ Ran
    /\ Absent = {}
    /\ "n" \in DOMAIN last.cmd.Args
    /\ "n" \notin DOMAIN last.args
    /\ Len(last.argv) = 1

(***************************************************************************)
(* Claims about Server.Run (SpecRun)                                        *)
(***************************************************************************)
\* Run is about to write loop.wr[1] in answer to loop.msg.
Answering == loop.pc = "WritingResponse"

\* The methods handleMessage has a case for.
KnownMethods == {"initialize", "notifications/initialized", "tools/list", "tools/call"}

\* C21: for a message without an id, whatever its method and whether or not
\* its handler fails, the server writes no message to the output stream.
C21_NotificationsNeverAnswered ==
    /\ Answering => loop.msg.id.present
    /\ \A j \in DOMAIN loop.out : loop.out[j].id.present

\* C22: a message with an unrecognized method and an id is answered with
\* exactly one error response of code -32601 carrying that id; one without an
\* id produces no response and no state change; in both cases the loop goes
\* on to the next message.
C22_UnrecognizedMethod ==
    [][/\ (loop.pc = "Dispatching" /\ loop.msg.method \notin KnownMethods)
            => /\ registry' = registry
               /\ saved' = saved
               /\ loop'.out = loop.out
               /\ loop'.err = ""
               /\ IF loop.msg.id.present
                  THEN /\ loop'.pc = "WritingResponse"
                       /\ loop'.msg = loop.msg
                       /\ Len(loop'.wr) = 1
                       /\ "error" \in DOMAIN loop'.wr[1]
                       /\ loop'.wr[1].error.code = -32601
                  ELSE /\ loop'.pc = "Idle"
                       /\ loop'.wr = <<>>
       /\ (loop.pc = "WritingResponse" /\ loop.msg.method \notin KnownMethods)
            => /\ loop'.out = Append(loop.out, [for |-> loop.read, id |-> loop.msg.id])
               /\ loop'.pc = "Idle"
               /\ loop'.err = ""
               /\ registry' = registry
               /\ saved' = saved]_vars

\* A request with an unrecognized method is being answered.
C22_Witness ==
    /\ Answering
    /\ loop.msg.method \notin KnownMethods
    /\ loop.msg.id.present
    /\ loop.wr[1].error.code = -32601

\* A notification with an unrecognized method is being dispatched, after
\* another message.
C22_WitnessNotification ==
    /\ loop.pc = "Dispatching"
    /\ loop.msg.method \notin KnownMethods
    /\ ~loop.msg.id.present
    /\ loop.read = 2

\* The steps of the loop: from where to where.
LoopCycle ==
    { <<"Idle", "ReadingMessage">>, <<"ReadingMessage", "Dispatching">>,
      <<"ReadingMessage", "Stopped">>, <<"Dispatching", "WritingResponse">>,
      <<"Dispatching", "Idle">>, <<"WritingResponse", "Idle">> }

\* C23: the loop cycles Idle -> ReadingMessage -> Dispatching ->
\* WritingResponse -> Idle; message i+1 is read only after the dispatch of
\* message i (execution and persistence included) is complete and its
\* response, if any, is written; so responses are written in the order of
\* their requests and at most one request is in flight.
C23_SequentialLoop ==
    /\ [](/\ loop.pc \in {"Idle", "ReadingMessage"}
               => loop.msg = NoMessage /\ loop.wr = <<>>
          /\ \A j \in DOMAIN loop.out :
                /\ loop.out[j].for <= loop.read
                /\ \A k \in DOMAIN loop.out : j < k => loop.out[j].for < loop.out[k].for)
    /\ [][/\ loop' # loop => <<loop.pc, loop'.pc>> \in LoopCycle
          /\ loop'.read # loop.read
               => /\ loop.pc = "ReadingMessage"
                  /\ loop'.read = loop.read + 1
          /\ loop'.out # loop.out
               => /\ loop.pc = "WritingResponse"
                  /\ loop'.out = Append(loop.out, [for |-> loop.read,
                                                   id |-> loop.msg.id])
          /\ (registry' # registry \/ saved' # saved)
               => loop.pc = "Dispatching" \/ phase = "boot"]_vars

\* Three messages were read; the first and the third were answered.
C23_Witness ==
    /\ loop.pc = "Idle"
    /\ loop.read = 3
    /\ Len(loop.out) = 2
    /\ loop.out[1].for = 1
    /\ loop.out[2].for = 3

\* C24: when reading hits the end of the stream or a read error, or a line
\* cannot be decoded, the loop ends with that error: no response is written
\* for it and nothing is read or dispatched afterwards; a handler failure on
\* a well-formed message is answered with an error of code -32603 and the
\* loop goes on.
C24_FatalReadFailure ==
    [][/\ loop.pc = "Stopped" => loop' = loop /\ registry' = registry /\ saved' = saved
       /\ (loop.pc = "ReadingMessage" /\ loop'.read = loop.read)
            => /\ loop'.pc = "Stopped"
               /\ loop'.err # ""
               /\ loop'.out = loop.out
               /\ registry' = registry
               /\ saved' = saved
       /\ (/\ loop.pc = "Dispatching"
           /\ loop.msg.method \in {"initialize", "tools/call"}
           /\ ~loop.msg.params.ok)
            => /\ loop'.pc = "WritingResponse"
               /\ loop'.err = ""
               /\ Len(loop'.wr) = 1
               /\ "error" \in DOMAIN loop'.wr[1]
               /\ loop'.wr[1].error.code = -32603
       /\ loop.pc = "WritingResponse" => loop'.pc \in {"Idle", "WritingResponse"}]_vars

\* A line that does not decode has ended the loop after one message, with
\* more of the stream unread.
C24_Witness ==
    /\ loop.pc = "Stopped"
    /\ loop.err = "failed to parse JSON-RPC message"
    /\ loop.read = 1
    /\ loop.read < MaxMessages

\* A handler failure is being answered.
C24_WitnessHandlerFailure ==
    /\ Answering
    /\ ~loop.msg.params.ok
    /\ loop.wr[1].error.code = -32603

\* C29: when the save after a successful mutation fails, the catalog keeps
\* the mutation, the request is answered as a success (as it is when the
\* save succeeds), and the loop goes on.
C29_PersistenceFailureNonFatal ==
    [][(/\ loop.pc = "Dispatching"
        /\ \E j \in DOMAIN loop'.steps : loop'.steps[j] = "persist"
        /\ saved' # RegistrySnapshot(registry'))
          => /\ saved' = saved
             /\ loop'.pc = "WritingResponse"
             /\ loop'.err = ""
             /\ Len(loop'.wr) = 1
             /\ "isError" \in DOMAIN loop'.wr[1]
             /\ ~loop'.wr[1].isError
             /\ \E fs \in RunFiles \cup {NoFiles} :
                   \E d \in handleMessage(registry, saved, loop.msg, QuietWorld, fs) :
                      /\ d.saved = RegistrySnapshot(d.commands)
                      /\ d.commands = registry'
                      /\ d.wr = loop'.wr]_vars

\* The save has failed in the tool named and its call is being answered on a
\* catalog that differs from the state file.
SaveFailedIn(tool) ==
    /\ Answering
    /\ loop.msg.method = "tools/call"
    /\ loop.msg.params.name = tool
    /\ \E j \in DOMAIN loop.steps : loop.steps[j] = "persist"
    /\ saved # RegistrySnapshot(registry)
    /\ ~loop.wr[1].isError

C29_Witness == SaveFailedIn(NameAddCommand) /\ NameA \in DOMAIN registry

C29_WitnessRemove == SaveFailedIn(NameRemoveCommand)

C29_WitnessUpdate == SaveFailedIn(NameUpdateCommand)

C29_WitnessBatch == SaveFailedIn(NameBatchExec)

C29_WitnessImport == SaveFailedIn(NameImportConfig)

\* The names of the dynamic tools of the tools/list result being written
\* (those after the nine built-in tools).
DynamicNames ==
    {loop.wr[1].tools[j].Name : j \in 10..Len(loop.wr[1].tools)}

\* A tools/list result is being written, and it holds the nine built-in
\* tools and then one tool per catalog entry.
ListsCatalog ==
    /\ Len(loop.wr[1].tools) = 9 + Cardinality(DOMAIN registry)
    /\ {loop.wr[1].tools[j].Name : j \in 1..9} = BuiltinNames
    /\ \A n \in DOMAIN registry :
          \E j \in 10..Len(loop.wr[1].tools) :
             loop.wr[1].tools[j] = commandToTool(registry[n])

C30_WitnessRemoved ==
    /\ Answering
    /\ loop.msg.method = "tools/list"
    /\ NameA \in loop.goneNew
    /\ NameA \notin loop.live

(***************************************************************************)
(* Claims about import_config (SpecServer)                                  *)
(***************************************************************************)
\* The last tools/call was import_config and it went through the entries of
\* its file (the summary is the response).
ImportRan ==
    /\ ToolCalled
    /\ last.params.name = NameImportConfig
    /\ ~IsProtocolError(last.resp)
    /\ "imported" \in DOMAIN last.resp.content

\* The overwrite flag of the last import_config.
ImportOverwrite ==
    /\ "overwrite" \in DOMAIN last.params.arguments
    /\ last.params.arguments["overwrite"].b

\* The file entries whose name the catalog held before the import.
ImportExisting ==
    {k \in DOMAIN last.files.importCommands :
        last.files.importCommands[k].Name \in DOMAIN last.pre}

\* The file entry k is among the errors of the summary.
ImportErrored(k) ==
    \E j \in DOMAIN last.resp.content.errors :
       last.resp.content.errors[j].name = last.files.importCommands[k].Name

\* C31: import_config without overwrite leaves every entry the catalog held
\* unchanged and counts each file entry whose name already exists as
\* skipped; with overwrite such entries are replaced (or refused by Update
\* and counted as errors); every file entry is counted exactly once as
\* imported, skipped or errored, and persist is called once iff at least one
\* entry was imported.
C31_ImportNeverOverwrites ==
    ImportRan =>
        LET summary == last.resp.content
            file == last.files.importCommands
        IN  /\ summary.imported + summary.skipped + Len(summary.errors)
                  = Cardinality(DOMAIN file)
            /\ last.steps = IF summary.imported > 0
                            THEN <<"persist", "respond">> ELSE <<"respond">>
            /\ ~ImportOverwrite
                  => /\ \A n \in DOMAIN last.pre :
                           n \in DOMAIN registry /\ registry[n] = last.pre[n]
                     /\ summary.skipped = Cardinality(ImportExisting)
                     /\ \A k \in ImportExisting : ~ImportErrored(k)
            /\ ImportOverwrite
                  => /\ summary.skipped = 0
                     /\ \A k \in ImportExisting :
                           \/ registry[file[k].Name] = file[k]
                           \/ /\ ImportErrored(k)
                              /\ \E e \in validateCommand(file[k]) :
                                    e.kind # Nil.kind
                              /\ registry[file[k].Name] = last.pre[file[k].Name]

\* An import without overwrite met a name the catalog held, and one it did
\* not hold.
C31_Witness ==
    /\ ImportRan
    /\ ~ImportOverwrite
    /\ ImportExisting # {}
    /\ last.resp.content.imported > 0

\* An import with overwrite replaced an entry of the catalog.
C31_WitnessOverwrite ==
    /\ ImportRan
    /\ ImportOverwrite
    /\ \E k \in ImportExisting :
          /\ registry[last.files.importCommands[k].Name]
                = last.files.importCommands[k]
          /\ last.pre[last.files.importCommands[k].Name]
                # last.files.importCommands[k]

(***************************************************************************)
(* Claims about batch_exec and the other tools (SpecBatch, SpecServer)      *)
(***************************************************************************)
\* An operation that is invalid whatever the catalog holds: an unknown kind,
\* a missing name, parameters that do not parse or a definition that fails
\* validation (already_exists and not_found depend on the catalog).
InvalidOp(op) ==
    \E o \in execBatchOp(EmptyMap, op) :
       o.err.kind \notin {Nil.kind, "already_exists", "not_found"}

\* C32: with atomic=true all operations of the batch are validated before
\* any of them is executed, so no catalog mutation is performed (not even
\* one that is undone later) when some operation of the batch is invalid.
C32_AtomicValidatesFirst ==
    (/\ BatchRan
     /\ atomicFlag(last.arguments)
     /\ \E i \in DOMAIN BatchOpsRun : InvalidOp(BatchOpsRun[i]))
        => \A j \in DOMAIN last.resp.content.results :
              ~last.resp.content.results[j].Success

\* C33: an atomic batch applies its operations strictly in list order and
\* stops at the first failure: with k the first failing index, the
\* operations after k are never attempted and the failure response's result
\* list has exactly k+1 entries, indices 0..k-1 marked success and index k
\* marked failed with its error.
C33_AtomicStopsAtFirstFailure ==
    (BatchRan /\ atomicFlag(last.arguments))
        => LET ops == BatchOpsRun
               run == RefRun(last.pre, ops, 1)
               k == FirstFailure(run)
               results == last.resp.content.results
           IN  k >= 0
                 => /\ StepsAre(k + 1, <<"load", "respond">>)
                    /\ Len(results) = k + 1
                    /\ \A i \in 1..(k + 1) :
                          /\ results[i].Index = i - 1
                          /\ results[i].Operation = ops[i].Operation
                          /\ results[i].Success = (i <= k)
                    /\ \A i \in 1..k : results[i].Error.kind = Nil.kind
                    /\ results[k + 1].Error.kind
                          \in {o.err.kind : o \in execBatchOp(run[k + 1].before,
                                                              ops[k + 1])} \ {Nil.kind}
                    /\ last.resp.content.error.kind = results[k + 1].Error.kind
                    /\ last.resp.content.failed_at = k

\* An atomic batch of three operations failed at its second: the third,
\* which would have succeeded, was never attempted.
C33_Witness ==
    /\ BatchRan
    /\ atomicFlag(last.arguments)
    /\ Len(BatchOpsRun) = 3
    /\ LET run == RefRun(last.pre, BatchOpsRun, 1)
       IN  /\ FirstFailure(run) = 1
           /\ ~run[3].fails
    /\ Len(last.resp.content.results) = 2

\* The last tools/call was batch_exec with a single update_command
\* operation.
BatchedUpdate ==
    /\ ToolCalled
    /\ last.params.name = NameBatchExec
    /\ isA(last.params.arguments, "commands", "array")
    /\ Len(last.params.arguments["commands"].a) = 1
    /\ firstBadElement(last.params.arguments["commands"].a, 1) = 0
    /\ parseBatchOp(last.params.arguments["commands"].a[1]).Operation
          = "update_command"

\* C34: an update_command operation inside batch_exec changes the catalog
\* exactly as the update_command tool called with the same parameters does
\* (fields supplied are changed, the others keep the entry's values), and
\* the two succeed or fail on the same inputs.
C34_BatchUpdateEqualsToolUpdate ==
    /\ (ToolCalled /\ last.params.name = NameUpdateCommand)
          => \E o \in execBatchOp(last.pre,
                                  [Operation |-> "update_command",
                                   Params |-> last.params.arguments]) :
                /\ o.commands = registry
                /\ (o.err.kind = Nil.kind) = ~last.resp.isError
    /\ BatchedUpdate
          => \E h \in handleUpdateCommand(
                        last.pre, last.preSaved,
                        parseBatchOp(last.params.arguments["commands"].a[1]).Params) :
                /\ h.commands = registry
                /\ h.resp.isError = last.resp.isError

(***************************************************************************)
(* More claims about the Executor (SpecExecute)                             *)
(***************************************************************************)
\* The argument vectors that hold the stringified values of the supplied
\* declared arguments, each once, in any order.
ArgumentVectors ==
    LET n == Cardinality(Passed)
    IN  { [j \in 1..n |-> argToString(last.args[f[j]])]
          : f \in {g \in [1..n -> Passed] :
                      \A i, j \in 1..n : i # j => g[i] # g[j]} }

\* C35: the argument vector is built by iterating the supplied arguments in
\* unspecified order: for the same definition and the same arguments every
\* permutation of the stringified declared values is a possible vector, so
\* with two or more declared parameters supplied two executions can differ,
\* whatever the definition declares.
C35_ArgumentOrderUnspecified ==
    (Ran /\ Absent = {})
        => /\ last.argv \in ArgumentVectors
           /\ buildArgs(last.cmd, last.args) = ArgumentVectors
           /\ Cardinality(Passed) >= 2
                 => \E v \in buildArgs(last.cmd, last.args) : v # last.argv

\* The definition declares msg and n, both are supplied, and the vector
\* holds msg first.
C35_Witness ==
    /\ Ran
    /\ Absent = {}
    /\ Passed = {"msg", "n"}
    /\ last.argv = <<argToString(JText("hi")), argToString(JNumber(7))>>

\* The same definition and arguments, and the vector holds n first.
C35_WitnessReversed ==
    /\ Ran
    /\ Absent = {}
    /\ Passed = {"msg", "n"}
    /\ last.argv = <<argToString(JNumber(7)), argToString(JText("hi"))>>

(***************************************************************************)
(* More claims about Server.Run (SpecRun)                                   *)
(***************************************************************************)
\* main's LoadState returned no error and no persist() has failed since.
LoadedAndSaved ==
    /\ phase = "run"
    /\ last.op = "LoadState"
    /\ last.err.kind = Nil.kind
    /\ ~loop.saveFailed

\* C36: starting from a successful load, whenever the loop is idle between
\* requests and no save has failed, the contents last handed to SaveState
\* equal the catalog: a request that changes the catalog saves before its
\* response, and a request that leaves it unchanged makes no save that
\* changes the state file.
C36_PersistedTracksCatalog ==
    /\ []((LoadedAndSaved /\ loop.pc = "Idle")
             => saved = RegistrySnapshot(registry))
    /\ [][(LoadedAndSaved /\ loop.pc = "Dispatching" /\ ~loop'.saveFailed)
             => /\ registry' # registry
                   => /\ Len(loop'.steps) >= 2
                      /\ loop'.steps[Len(loop'.steps) - 1] = "persist"
                      /\ loop'.steps[Len(loop'.steps)] = "respond"
                      /\ saved' = RegistrySnapshot(registry')
                /\ registry' = registry => saved' = saved]_vars

\* The loop is idle after requests that changed the loaded catalog, and the
\* state file holds the new catalog.
C36_Witness ==
    /\ LoadedAndSaved
    /\ loop.pc = "Idle"
    /\ loop.read >= 2
    /\ registry # last.file.commands
    /\ registry # EmptyMap
    /\ saved = RegistrySnapshot(registry)

\* The loop is idle after a batch that was rolled back: nothing was saved.
C36_WitnessRolledBack ==
    /\ LoadedAndSaved
    /\ loop.pc = "Idle"
    /\ loop.read = 1
    /\ NameC \in loop.goneNew
    /\ saved = last.file.commands

\* C37: for every well-formed message that carries an id, whatever its
\* method and whether its handler succeeds or fails, the server writes
\* exactly one response carrying that id before it reads the next message
\* (writes to stdout succeed).
C37_OneResponsePerRequest ==
    /\ [](\A j, k \in DOMAIN loop.out :
             (j # k /\ loop.out[j].id.present) => loop.out[j].for # loop.out[k].for)
    /\ [][/\ (loop.pc = "Dispatching" /\ loop.msg.id.present)
               => /\ loop'.pc = "WritingResponse"
                  /\ Len(loop'.wr) = 1
          /\ (loop.pc = "WritingResponse" /\ loop.msg.id.present)
               => /\ loop'.out = Append(loop.out, [for |-> loop.read,
                                                   id |-> loop.msg.id])
                  /\ loop'.pc = "Idle"
          /\ loop'.pc = "ReadingMessage" => loop.wr = <<>>]_vars

\* The catalog holds the names it held before the last call, and every
\* entry but the one named n is unchanged.
OnlyChanged(n) ==
    /\ DOMAIN registry = DOMAIN last.pre
    /\ \A m \in DOMAIN last.pre \ {n} : registry[m] = last.pre[m]

\* C38: no built-in tool call (update_command, an update_command operation
\* of batch_exec, import_config with overwrite) calls Registry.Update with a
\* new name different from the old one: every successful update issued
\* through the protocol leaves the set of catalog names unchanged and
\* overwrites no third entry.
C38_NoRenameThroughProtocol ==
    /\ (ToolCalled /\ last.params.name = NameUpdateCommand /\ ~last.resp.isError)
          => /\ OnlyChanged(asString(last.params.arguments, "name"))
             /\ registry[asString(last.params.arguments, "name")].Name
                   = asString(last.params.arguments, "name")
    /\ (BatchedUpdate /\ ~last.resp.isError)
          => OnlyChanged(asString(
                 parseBatchOp(last.params.arguments["commands"].a[1]).Params, "name"))
    /\ (ImportRan /\ ImportOverwrite)
          => /\ DOMAIN last.pre \subseteq DOMAIN registry
             /\ \A m \in DOMAIN last.pre :
                   (\A k \in DOMAIN last.files.importCommands :
                       last.files.importCommands[k].Name # m)
                      => registry[m] = last.pre[m]

(***************************************************************************)
(* More claims about batch_exec (SpecBatch, SpecConc)                       *)
(***************************************************************************)
\* What the two modes are compared on: the final catalog and state file,
\* the per-operation results, the overall success and the persist() calls.
BatchOutcome(h) ==
    [commands |-> h.commands, saved |-> h.saved, isError |-> h.resp.isError,
     success |-> h.resp.content.success, results |-> h.resp.content.results,
     persists |-> h.persists]

\* C39: for every starting catalog and every batch in which every operation
\* succeeds, atomic mode and partial mode end with the same catalog, report
\* the same per-operation results and the same overall success, and each
\* make exactly one persistence call.
C39_ModesAgreeOnSuccess ==
    (BatchRan /\ FirstFailure(RefRun(last.pre, BatchOpsRun, 1)) = -1)
        => LET atomic == {BatchOutcome(h) :
                            h \in batchAtomic(last.pre, last.preSaved, BatchOpsRun)}
               partial == {BatchOutcome(h) :
                             h \in batchPartial(last.pre, last.preSaved, BatchOpsRun)}
           IN  /\ atomic = partial
               /\ BatchOutcome([commands |-> registry, saved |-> saved,
                                resp |-> last.resp, persists |-> last.persists])
                     \in atomic
               /\ \A x \in atomic \cup partial :
                     /\ x.persists = 1
                     /\ x.success
                     /\ ~x.isError
                     /\ Len(x.results) = Len(BatchOpsRun)
                     /\ x.commands = FinalCatalog(last.pre,
                                                  RefRun(last.pre, BatchOpsRun, 1))

\* A partial batch of three operations that all succeeded and changed the
\* catalog.
C39_Witness ==
    /\ BatchRan
    /\ ~atomicFlag(last.arguments)
    /\ Len(BatchOpsRun) = 3
    /\ FirstFailure(RefRun(last.pre, BatchOpsRun, 1)) = -1
    /\ registry # last.pre
    /\ last.persists = 1

\* An atomic batch of three operations that all succeeded.
C39_WitnessAtomic ==
    /\ BatchRan
    /\ atomicFlag(last.arguments)
    /\ Len(BatchOpsRun) = 3
    /\ FirstFailure(RefRun(last.pre, BatchOpsRun, 1)) = -1
    /\ registry # last.pre
    /\ ~last.resp.isError

\* C40: the rollback of an atomic batch undoes only the batch's own effects:
\* a mutation another caller committed between the batch's Snapshot and its
\* rollback Load (here an Add of a name the snapshot does not hold, present
\* in the catalog when Load takes the lock) is still present after the
\* rollback.
C40_RollbackKeepsOthers ==
    \A b \in DOMAIN goroutines :
       \A i \in DOMAIN goroutines[b].log :
          LET load == goroutines[b].log[i]
          IN  (goroutines[b].kind = "batch" /\ load.call.op = "Load")
                 => \A p \in DOMAIN goroutines \ {b} :
                       \A j \in DOMAIN goroutines[p].log :
                          LET e == goroutines[p].log[j]
                          IN  (/\ e.call.op = "Add"
                               /\ e.locked
                               /\ e.err.kind = Nil.kind
                               /\ e.call.cmd.Name \notin DOMAIN load.call.commands
                               /\ e.call.cmd.Name \in DOMAIN load.seen)
                                 => /\ e.call.cmd.Name \in DOMAIN load.after
                                    /\ load.after[e.call.cmd.Name] = e.call.cmd

=============================================================================
